---------------------------- MODULE Spec2Model ----------------------------
(* Parking-service backend (Timmy748/parking-service): the permission     *)
(* gate, the generic field patcher, the customer, parking-spot and        *)
(* parking-record endpoints, the occupancy reconciler and the ownership   *)
(* filter, modelled from the sources under src/.                          *)
EXTENDS Integers, Sequences, FiniteSets, TLC

VARIABLES
    customers,   \* table customers_customer: id -> row
    vehicles,    \* table vehicles_vehicle: id -> row
    spots,       \* table parking_parkingspot: id -> row
    records,     \* table parking_parkingrecord: id -> row
    seq,         \* the auto-increment primary-key counters, one per table
    now,         \* the clock auto_now / auto_now_add read
    instance,    \* the in-memory model instance a direct update_service call works on
    request,     \* the request the last operation handled
    response,    \* what the last operation returned
    invoked,     \* how often the body of the decorated function ran for the last request
    lastWrite,   \* history: per spot, whether the record last written with it was open
    lookups,     \* the lookup tables of vehicles, by model name: id -> row
    jobs,        \* the task queue: the messages complete_vehicle_data.delay published
    procs        \* the update_vehicle calls in progress, each in a transaction of its own

vars == <<customers, vehicles, spots, records, seq, now, instance, request,
          response, invoked, lastWrite, lookups, jobs, procs>>

store == <<customers, vehicles, spots, records>>

\* what the endpoints of customers and parking never touch
vehicles_app == <<lookups, jobs, procs>>

-----------------------------------------------------------------------------
(* Bounds of the model.                                                    *)

MaxTime == 1          \* the clock runs 0..MaxTime
MaxPermLen == 2       \* longest permission list handed to the gate
MaxCustomers == 1     \* customers ever created
MaxSpots == 2         \* parking spots ever created
MaxRecords == 2       \* parking records ever created

-----------------------------------------------------------------------------
(* Optional values: None is Python's None, Some(x) a present value.  A     *)
(* payload field is Unset when the request body did not carry it and       *)
(* Set(v) when it did (v may itself be None).                              *)

None == <<>>
Some(x) == <<x>>
Unset == <<>>
Set(v) == <<v>>
Opt(S) == {None} \cup {Some(x) : x \in S}
Payload(S) == {Unset} \cup {Set(v) : v \in S}

Times == 0..MaxTime

-----------------------------------------------------------------------------
(* Users (django.contrib.auth).  "anon" is AnonymousUser; "absent" stands  *)
(* for a request object that has no user attribute.                        *)

GatePerms == {"auth.add_user", "auth.change_user", "app.view_model"}

CustomerPerms == {"customers.add_customer", "customers.delete_customer",
                  "customers.view_customer", "customers.change_customer"}

SpotPerms == {"parking.add_parkingspot", "parking.delete_parkingspot",
              "parking.view_parkingspot", "parking.change_parkingspot"}

RecordPerms == {"parking.add_parkingrecord", "parking.delete_parkingrecord",
                "parking.view_parkingrecord", "parking.change_parkingrecord"}

VehiclePerms == {"vehicles.view_vehicle", "vehicles.add_vehicle",
                 "vehicles.change_vehicle", "vehicles.delete_vehicle"}

Permissions == GatePerms \cup CustomerPerms \cup SpotPerms \cup RecordPerms
               \cup VehiclePerms

ViewPerms == {"auth.add_user", "auth.change_user", "customers.view_customer",
              "parking.view_parkingspot", "parking.view_parkingrecord",
              "vehicles.view_vehicle"}

auth_user ==
    [anon  |-> [pk |-> None,    is_anonymous |-> TRUE,  is_active |-> FALSE,
                is_staff |-> FALSE, is_superuser |-> FALSE, user_permissions |-> {}],
     carol |-> [pk |-> Some(1), is_anonymous |-> FALSE, is_active |-> TRUE,
                is_staff |-> FALSE, is_superuser |-> FALSE, user_permissions |-> {}],
     bob   |-> [pk |-> Some(2), is_anonymous |-> FALSE, is_active |-> TRUE,
                is_staff |-> FALSE, is_superuser |-> FALSE, user_permissions |-> ViewPerms],
     alice |-> [pk |-> Some(3), is_anonymous |-> FALSE, is_active |-> TRUE,
                is_staff |-> FALSE, is_superuser |-> FALSE, user_permissions |-> Permissions],
     dave  |-> [pk |-> Some(4), is_anonymous |-> FALSE, is_active |-> FALSE,
                is_staff |-> FALSE, is_superuser |-> FALSE, user_permissions |-> Permissions],
     staff |-> [pk |-> Some(5), is_anonymous |-> FALSE, is_active |-> TRUE,
                is_staff |-> TRUE,  is_superuser |-> FALSE, user_permissions |-> {}],
     root  |-> [pk |-> Some(6), is_anonymous |-> FALSE, is_active |-> TRUE,
                is_staff |-> FALSE, is_superuser |-> TRUE,  user_permissions |-> {}]]

Users == DOMAIN auth_user
StoredUsers == {u \in Users : ~auth_user[u].is_anonymous}
UserPks == {auth_user[u].pk[1] : u \in StoredUsers}
NoUser == "absent"
RequestUsers == Users \cup {NoUser}

\* django.contrib.auth: User.has_perm / AnonymousUser.has_perm with ModelBackend
has_perm(user, perm) ==
    \/ auth_user[user].is_active /\ auth_user[user].is_superuser
    \/ /\ auth_user[user].is_active
       /\ ~auth_user[user].is_anonymous
       /\ perm \in auth_user[user].user_permissions

\* django.contrib.auth: has_perms is all(has_perm(p) for p in perm_list)
RECURSIVE has_perms(_, _)
has_perms(user, perm_list) ==
    IF perm_list = <<>> THEN TRUE
    ELSE IF ~has_perm(user, Head(perm_list)) THEN FALSE
    ELSE has_perms(user, Tail(perm_list))

is_internal_user(user) ==
    auth_user[user].is_superuser \/ auth_user[user].is_staff

\* has_permissions with the two tests joined by `and`
has_permissions_conjunction(user, permissions) ==
    IF permissions = None THEN is_internal_user(user)
    ELSE is_internal_user(user) /\ has_perms(user, permissions[1])

\* permissions is None (absent) or Some(list of permission names)
has_permissions(user, permissions) ==
    IF permissions = None THEN is_internal_user(user)
    ELSE is_internal_user(user) \/ has_perms(user, permissions[1])

\* the test of has_permissions_decorator.inner: TRUE when the call goes through
gate(user, permissions) ==
    ~(user = NoUser \/ ~has_permissions(user, permissions))

unauthorized_menssage == "Apenas administaradores tem essa funcao"
internal_erro_menssage == "Erro interno no servidor"
not_found_menssage(model) == <<model, "nao encontrado(a)">>
deleted_menssage(model) == <<model, "deletado(a) com sucesso">>

-----------------------------------------------------------------------------
(* Values returned by a view: the tuple (status, body), or a bare body.    *)

Resp(status, body) == [status |-> Some(status), body |-> body]
Bare(body) == [status |-> None, body |-> body]
Message(text) == [menssage |-> text]
Forbidden == Resp(403, Message(unauthorized_menssage))
InternalError == Resp(500, Message(internal_erro_menssage))
NotFound(model) == Resp(404, Message(not_found_menssage(model)))
Raised(exception) == Bare([raised |-> exception])
NoResponse == Bare([none |-> TRUE])
NoRequest == [op |-> "none", user |-> NoUser, permissions |-> None]
NoInstance == [model |-> "none"]

Req(op, user, permissions) ==
    [op |-> op, user |-> user, permissions |-> permissions]

Entity(model, id) == [model |-> model, id |-> id]
Instance(model, id, fields) == [model |-> model, id |-> id, fields |-> fields]

\* an empty table, a table with one more row, a table with one row less
EmptyTable == [i \in {} |-> None]
Insert(table, id, row) == [i \in DOMAIN table \cup {id} |-> IF i = id THEN row ELSE table[i]]
Delete(table, id) == [i \in DOMAIN table \ {id} |-> table[i]]

\* the lookup models of apps/vehicles, in the order update_vehicle resolves them
relation_map == <<"vehicle_type", "brand", "color", "model">>
LookupModels == {relation_map[i] : i \in DOMAIN relation_map}

\* the column of vehicles_vehicle behind each relationship
attname(field) ==
    CASE field = "vehicle_type" -> "vehicle_type_id"
      [] field = "brand" -> "brand_id"
      [] field = "color" -> "color_id"
      [] field = "model" -> "model_id"

\* a row of vehicles_vehicle with no relationship set, stamped at time 0
VehicleRow(owner_id, license_plate) ==
    [vehicle_type_id |-> None, owner_id |-> owner_id, license_plate |-> license_plate,
     brand_id |-> None, model_id |-> None, color_id |-> None,
     created_at |-> 0, updated_at |-> 0]

\* the four lookup tables, empty
NoLookups == [m \in LookupModels |-> EmptyTable]

-----------------------------------------------------------------------------
(* Text is a sequence of characters.  icontains is the case-insensitive    *)
(* substring lookup of the filter schemas.                                  *)

lower(c) ==
    CASE c = "A" -> "a"
      [] c = "B" -> "b"
      [] c = "N" -> "n"
      [] c = "O" -> "o"
      [] OTHER -> c

Lower(text) == [i \in 1..Len(text) |-> lower(text[i])]

icontains(value, needle) ==
    /\ value # None
    /\ \E i \in 1..(Len(value[1]) + 1) :
          /\ i + Len(needle) - 1 <= Len(value[1])
          /\ SubSeq(Lower(value[1]), i, i + Len(needle) - 1) = Lower(needle)

-----------------------------------------------------------------------------
(* The generic field patcher.  `data` is a Schema (its fields Unset or     *)
(* Set) or a dict (its items).                                             *)

Schema(fields) == [kind |-> "schema", fields |-> fields]
Dict(items) == [kind |-> "dict", items |-> items]

\* Schema.dict(exclude_unset=True): only the fields the body carried
dict_exclude_unset(payload) ==
    [f \in {k \in DOMAIN payload : payload[k] # Unset} |-> payload[f][1]]

\* Schema.dict(): every field, a field the body did not carry at its default None
dict(payload) ==
    [f \in DOMAIN payload |-> IF payload[f] = Unset THEN None ELSE payload[f][1]]

\* update_service whose loop skips the items whose value is None
update_service_skip_none(data, inst) ==
    LET items == IF data.kind = "dict" THEN data.items
                 ELSE dict_exclude_unset(data.fields)
    IN  [f \in DOMAIN inst \cup DOMAIN items |->
            IF f \in DOMAIN items /\ (f \notin DOMAIN inst \/ items[f] # None)
            THEN items[f] ELSE inst[f]]

\* update_service up to its save: the conversion of a Schema and the setattr loop
update_service(data, inst) ==
    LET items == IF data.kind = "dict" THEN data.items
                 ELSE dict_exclude_unset(data.fields)
    IN  [f \in DOMAIN inst \cup DOMAIN items |->
            IF f \in DOMAIN items THEN items[f] ELSE inst[f]]

\* DateTimeField(auto_now=True).pre_save: every save stamps updated_at
auto_now(inst) == [inst EXCEPT !.updated_at = now]

-----------------------------------------------------------------------------
(* has_permissions_decorator(permissions)(func) called with a request of   *)
(* `user`: func is the step of the decorated view.  `op` names the view.   *)

\* the decorator testing only that the request has a user
has_permissions_decorator_user_only(op, user, permissions, func) ==
    /\ request' = Req(op, user, permissions)
    /\ IF user = NoUser
       THEN /\ invoked' = 0
            /\ response' = Forbidden
            /\ UNCHANGED <<store, seq, now, instance, lastWrite, vehicles_app>>
       ELSE /\ invoked' = 1
            /\ func

has_permissions_decorator(op, user, permissions, func) ==
    /\ request' = Req(op, user, permissions)
    /\ IF user = NoUser \/ ~has_permissions(user, permissions)
       THEN /\ invoked' = 0
            /\ response' = Forbidden
            /\ UNCHANGED <<store, seq, now, instance, lastWrite, vehicles_app>>
       ELSE /\ invoked' = 1
            /\ func

\* the view of utils/tests/has_permissions_decorator_test.py: it returns "ok"
view_func ==
    /\ response' = Bare([raw |-> "ok"])
    /\ UNCHANGED <<store, seq, now, instance, lastWrite, vehicles_app>>

PermLists == UNION {[1..n -> GatePerms] : n \in 0..MaxPermLen}
DeclaredPermissions == {None} \cup {Some(l) : l \in PermLists}

view(user, permissions) ==
    has_permissions_decorator("view", user, permissions, view_func)

\* time passes
Tick ==
    /\ now < MaxTime
    /\ now' = now + 1
    /\ UNCHANGED <<store, seq, instance, request, response, invoked, lastWrite, vehicles_app>>

InitStore ==
    /\ customers = EmptyTable
    /\ vehicles = EmptyTable
    /\ spots = EmptyTable
    /\ records = EmptyTable
    /\ seq = [customer |-> 0, spot |-> 0, record |-> 0, vehicle |-> 0]
    /\ now = 0
    /\ instance = NoInstance
    /\ request = NoRequest
    /\ response = NoResponse
    /\ invoked = 0
    /\ lastWrite = EmptyTable
    /\ lookups = NoLookups /\ jobs = <<>> /\ procs = EmptyTable

NextGate ==
    \E user \in RequestUsers, permissions \in DeclaredPermissions :
        view(user, permissions)

SpecGate == InitStore /\ [][NextGate]_vars

-----------------------------------------------------------------------------
(* Customers: apps/customers.                                              *)

Names == {<<"A", "n", "a">>, <<"B", "o">>}
Cpfs == {<<"1", "1">>}
Phones == {<<"9">>}
NameNeedles == {<<"a", "N">>, <<"b">>}

CreateCustomerPayloads ==
    [name : {Set(Some(n)) : n \in Names},
     phone : {Unset, Set(Some(<<"9">>))},
     cpf : {Unset},
     user_id : {Unset, Set(Some(1)), Set(Some(9))}]   \* 9: the pk of no user

PatchCustomerPayloads ==
    [name : {Unset, Set(None), Set(Some(<<"B", "o">>))},
     phone : Payload(Opt(Phones)),
     cpf : {Unset}]

FilterCustomers ==
    [name : Opt(NameNeedles), phone : {None}, cpf : {None},
     created_at : Opt(Times), updated_at : {None}]

\* the constraints of customers_customer an INSERT or UPDATE of row `id` must meet:
\* name NOT NULL, user_id a stored user, user_id unique (OneToOneField)
customer_integrity(table, id, row) ==
    /\ row.name # None
    /\ row.user_id # None =>
          /\ row.user_id[1] \in UserPks
          /\ \A j \in DOMAIN table \ {id} : table[j].user_id # row.user_id

\* FilterCustomerSchema.filter: the fields that are not None, combined with AND
filter_customers(filters, table) ==
    {i \in DOMAIN table :
        /\ filters.name # None => icontains(table[i].name, filters.name[1])
        /\ filters.phone # None => icontains(table[i].phone, filters.phone[1])
        /\ filters.cpf # None => icontains(table[i].cpf, filters.cpf[1])
        /\ filters.created_at # None => table[i].created_at = filters.created_at[1]
        /\ filters.updated_at # None => table[i].updated_at = filters.updated_at[1]}

create_customer_func(payload) ==
    LET id == seq.customer + 1
        row == dict(payload) @@ [created_at |-> now, updated_at |-> now]
    IN  /\ IF customer_integrity(customers, id, row)
           THEN /\ customers' = Insert(customers, id, row)
                /\ seq' = [seq EXCEPT !.customer = id]
                /\ response' = Resp(201, Entity("Customer", id))
           ELSE /\ response' = InternalError
                /\ UNCHANGED <<customers, seq>>
        /\ UNCHANGED <<vehicles, spots, records, now, instance, lastWrite, vehicles_app>>

create_customer(user, payload) ==
    /\ seq.customer < MaxCustomers
    /\ has_permissions_decorator("create_customer", user,
           Some(<<"customers.add_customer">>), create_customer_func(payload))

delete_customer_func(id) ==
    /\ IF id \notin DOMAIN customers
       THEN /\ response' = NotFound("Cliente")
            /\ UNCHANGED customers
       ELSE /\ customers' = Delete(customers, id)
            /\ response' = Resp(200, Message(deleted_menssage("Cliente")))
    /\ UNCHANGED <<vehicles, spots, records, seq, now, instance, lastWrite, vehicles_app>>

delete_customer(user, id) ==
    has_permissions_decorator("delete_customer", user,
        Some(<<"customers.delete_customer">>), delete_customer_func(id))

get_customers_func(filters) ==
    /\ response' = Resp(200, [ids |-> filter_customers(filters, customers)])
    /\ UNCHANGED <<store, seq, now, instance, lastWrite, vehicles_app>>

get_customers(user, filters) ==
    has_permissions_decorator("get_customers", user,
        Some(<<"customers.view_customer">>), get_customers_func(filters))

get_customer_func(id) ==
    /\ response' = IF id \notin DOMAIN customers
                   THEN NotFound("Cliente")
                   ELSE Resp(200, Entity("Customer", id))
    /\ UNCHANGED <<store, seq, now, instance, lastWrite, vehicles_app>>

get_customer(user, id) ==
    has_permissions_decorator("get_customer", user,
        Some(<<"customers.view_customer">>), get_customer_func(id))

\* update_service(payload, customer) saves, then the view saves the instance again
patch_customer_func(id, payload) ==
    /\ IF id \notin DOMAIN customers
       THEN /\ response' = NotFound("Cliente")
            /\ UNCHANGED customers
       ELSE LET patched == auto_now(update_service(Schema(payload), customers[id]))
            IN  IF customer_integrity(customers, id, patched)
                THEN /\ customers' = Insert(customers, id, patched)
                     /\ response' = Resp(200, Entity("Customer", id))
                ELSE /\ response' = InternalError
                     /\ UNCHANGED customers
    /\ UNCHANGED <<vehicles, spots, records, seq, now, instance, lastWrite, vehicles_app>>

patch_customer(user, id, payload) ==
    has_permissions_decorator("patch_customer", user,
        Some(<<"customers.change_customer">>), patch_customer_func(id, payload))

CustomerIds == 1..MaxCustomers
CustomerCallers == {"anon", "alice", "staff"}

NextCustomers ==
    \/ \E user \in CustomerCallers, payload \in CreateCustomerPayloads :
          create_customer(user, payload)
    \/ \E user \in CustomerCallers, id \in CustomerIds : delete_customer(user, id)
    \/ \E user \in CustomerCallers, filters \in FilterCustomers :
          get_customers(user, filters)
    \/ \E user \in CustomerCallers, id \in CustomerIds : get_customer(user, id)
    \/ \E user \in CustomerCallers, id \in CustomerIds,
          payload \in PatchCustomerPayloads : patch_customer(user, id, payload)
    \/ Tick

SpecCustomers == InitStore /\ [][NextCustomers]_vars

-----------------------------------------------------------------------------
(* update_service called on a Customer instance, as                        *)
(* utils/tests/update_service_tests.py does.                               *)

CustomerFields == {"user_id", "name", "cpf", "phone", "created_at", "updated_at"}

PatchData ==
    {Schema(payload) :
        payload \in [name : {Unset, Set(None), Set(Some(<<"B", "o">>))},
                     phone : Payload(Opt(Phones)),
                     cpf : {Unset, Set(None)}]}
    \cup {Dict(EmptyTable),
          Dict([user_id |-> Some(1)]),
          Dict([nickname |-> Some(<<"B", "o">>)])}

\* Model.save(): the columns of the row are the model's fields of the instance
columns(fields) == [f \in CustomerFields |-> fields[f]]

\* update_service saving whatever `save` says
call_update_service_always_saves(data, save) ==
    LET patched == update_service(data, instance.fields)
        saved == auto_now(patched)
    IN  /\ instance.model = "Customer"
        /\ request' = Req("update_service", NoUser, None)
        /\ instance' = [instance EXCEPT !.fields = saved]
        /\ IF customer_integrity(customers, instance.id, columns(saved))
           THEN /\ customers' = Insert(customers, instance.id, columns(saved))
                /\ response' = Bare(Entity("Customer", instance.id))
           ELSE /\ response' = Raised("IntegrityError")
                /\ UNCHANGED customers
        /\ UNCHANGED <<vehicles, spots, records, seq, now, invoked, lastWrite, vehicles_app>>

call_update_service(data, save) ==
    LET patched == update_service(data, instance.fields)
        saved == auto_now(patched)
    IN  /\ instance.model = "Customer"
        /\ request' = Req("update_service", NoUser, None)
        /\ IF ~save
           THEN /\ instance' = [instance EXCEPT !.fields = patched]
                /\ response' = Bare(Entity("Customer", instance.id))
                /\ UNCHANGED customers
           ELSE /\ instance' = [instance EXCEPT !.fields = saved]
                /\ IF customer_integrity(customers, instance.id, columns(saved))
                   THEN /\ customers' = Insert(customers, instance.id, columns(saved))
                        /\ response' = Bare(Entity("Customer", instance.id))
                   ELSE /\ response' = Raised("IntegrityError")
                        /\ UNCHANGED customers
        /\ UNCHANGED <<vehicles, spots, records, seq, now, invoked, lastWrite, vehicles_app>>

\* customer.refresh_from_db()
refresh_from_db ==
    /\ instance.model = "Customer"
    /\ instance.id \in DOMAIN customers
    /\ instance' = [instance EXCEPT !.fields = customers[instance.id]]
    /\ request' = Req("refresh_from_db", NoUser, None)
    /\ response' = NoResponse
    /\ UNCHANGED <<store, seq, now, invoked, lastWrite, vehicles_app>>

\* setUp: one stored customer and the instance Customer.objects.create returned
InitPatch ==
    \E row \in [name : {Some(n) : n \in Names}, phone : Opt(Phones),
                cpf : {Some(c) : c \in Cpfs}, user_id : {None},
                created_at : {0}, updated_at : {0}] :
        /\ customers = Insert(EmptyTable, 1, row)
        /\ instance = Instance("Customer", 1, row)
        /\ vehicles = EmptyTable
        /\ spots = EmptyTable
        /\ records = EmptyTable
        /\ seq = [customer |-> 1, spot |-> 0, record |-> 0, vehicle |-> 0]
        /\ now = 0
        /\ request = NoRequest
        /\ response = NoResponse
        /\ invoked = 0
        /\ lastWrite = EmptyTable
        /\ lookups = NoLookups /\ jobs = <<>> /\ procs = EmptyTable

NextPatch ==
    \/ \E data \in PatchData, save \in BOOLEAN : call_update_service(data, save)
    \/ refresh_from_db
    \/ Tick

SpecPatch == InitPatch /\ [][NextPatch]_vars

-----------------------------------------------------------------------------
(* Parking spots and parking records: apps/parking.                        *)

SpotNumbers == {<<"A", "1">>, <<"B", "2">>}
SpotIds == 1..MaxSpots
RecordIds == 1..MaxRecords

CreateSpotPayloads == [spot_number : {Set(Some(n)) : n \in SpotNumbers}]

PatchSpotPayloads ==
    [spot_number : Payload(Opt(SpotNumbers)),
     is_occupied : Payload(Opt(BOOLEAN))]

\* ids a body can name: those of the rows there may be, and 9, the pk of no row
CreateRecordPayloads ==
    [vehicle_id : {Unset, Set(Some(1)), Set(Some(9))},
     parking_spot_id : {Unset, Set(Some(9))} \cup {Set(Some(i)) : i \in SpotIds}]

PatchRecordPayloads ==
    [exit_time : Payload(Opt({now})),
     vehicle_id : {Unset, Set(None)},
     parking_spot_id : {Unset, Set(Some(9))} \cup {Set(Some(i)) : i \in SpotIds}]

\* parking_parkingspot: spot_number NOT NULL and unique, is_occupied NOT NULL
spot_integrity(table, id, row) ==
    /\ row.spot_number # None
    /\ row.is_occupied # None
    /\ \A j \in DOMAIN table \ {id} : table[j].spot_number # row.spot_number

\* parking_parkingrecord: vehicle_id and parking_spot_id NOT NULL, each the pk of a row
record_integrity(row) ==
    /\ row.vehicle_id # None
    /\ row.vehicle_id[1] \in DOMAIN vehicles
    /\ row.parking_spot_id # None
    /\ row.parking_spot_id[1] \in DOMAIN spots

\* on_delete=PROTECT: the rows of parking_parkingrecord that reference the spot
protecting_records(id) ==
    {r \in DOMAIN records : records[r].parking_spot_id = Some(id)}

\* the receiver with the test on exit_time inverted
update_parking_spot_status_inverted(inst, table) ==
    LET id == inst.parking_spot_id[1]
        parking_spot == [table[id] EXCEPT !.is_occupied = Some(inst.exit_time # None)]
    IN  Insert(table, id, auto_now(parking_spot))

\* the post_save receiver of ParkingRecord: the spots table after it saved the spot
update_parking_spot_status(inst, table) ==
    LET id == inst.parking_spot_id[1]
        parking_spot == [table[id] EXCEPT !.is_occupied = Some(inst.exit_time = None)]
    IN  Insert(table, id, auto_now(parking_spot))

\* history: the last record written with this spot had exit_time null (open)
record_wrote(history, id, open) == Insert(history, id, open)

create_spot_func(payload) ==
    LET id == seq.spot + 1
        row == dict(payload) @@ [is_occupied |-> Some(FALSE),
                                 created_at |-> now, updated_at |-> now]
    IN  /\ IF spot_integrity(spots, id, row)
           THEN /\ spots' = Insert(spots, id, row)
                /\ seq' = [seq EXCEPT !.spot = id]
                /\ response' = Resp(201, Entity("ParkingSpot", id))
           ELSE /\ response' = InternalError
                /\ UNCHANGED <<spots, seq>>
        /\ UNCHANGED <<customers, vehicles, records, now, instance, lastWrite, vehicles_app>>

create_spot(user, payload) ==
    /\ seq.spot < MaxSpots
    /\ has_permissions_decorator("create_spot", user,
           Some(<<"parking.add_parkingspot">>), create_spot_func(payload))

delete_spot_func(id) ==
    /\ IF id \notin DOMAIN spots
       THEN /\ response' = NotFound("Vaga")
            /\ UNCHANGED <<spots, lastWrite>>
       ELSE IF protecting_records(id) # {}
       THEN /\ response' = InternalError
            /\ UNCHANGED <<spots, lastWrite>>
       ELSE /\ spots' = Delete(spots, id)
            /\ lastWrite' = Delete(lastWrite, id)
            /\ response' = Resp(200, Message(deleted_menssage("Vaga")))
    /\ UNCHANGED <<customers, vehicles, records, seq, now, instance, vehicles_app>>

delete_spot(user, id) ==
    has_permissions_decorator("delete_spot", user,
        Some(<<"parking.delete_parkingspot">>), delete_spot_func(id))

\* update_service(payload, spot) saves, then the view saves the instance again
patch_spot_func(id, payload) ==
    /\ IF id \notin DOMAIN spots
       THEN /\ response' = NotFound("Vaga")
            /\ UNCHANGED spots
       ELSE LET patched == auto_now(update_service(Schema(payload), spots[id]))
            IN  IF spot_integrity(spots, id, patched)
                THEN /\ spots' = Insert(spots, id, patched)
                     /\ response' = Resp(200, Entity("ParkingSpot", id))
                ELSE /\ response' = InternalError
                     /\ UNCHANGED spots
    /\ UNCHANGED <<customers, vehicles, records, seq, now, instance, lastWrite, vehicles_app>>

patch_spot(user, id, payload) ==
    has_permissions_decorator("patch_spot", user,
        Some(<<"parking.change_parkingspot">>), patch_spot_func(id, payload))

\* a creation that refuses a spot that is marked occupied
create_record_func_guarded(payload) ==
    LET id == seq.record + 1
        row == dict(payload) @@ [entry_time |-> now, exit_time |-> None]
    IN  /\ IF record_integrity(row)
              /\ spots[row.parking_spot_id[1]].is_occupied # Some(TRUE)
           THEN /\ records' = Insert(records, id, row)
                /\ seq' = [seq EXCEPT !.record = id]
                /\ spots' = update_parking_spot_status(row, spots)
                /\ lastWrite' = record_wrote(lastWrite, row.parking_spot_id[1], TRUE)
                /\ response' = Resp(201, Entity("ParkingRecord", id))
           ELSE /\ response' = InternalError
                /\ UNCHANGED <<records, seq, spots, lastWrite>>
        /\ UNCHANGED <<customers, vehicles, now, instance, vehicles_app>>

\* ParkingRecord.objects.create(**payload.dict()): the INSERT, then post_save
create_record_func(payload) ==
    LET id == seq.record + 1
        row == dict(payload) @@ [entry_time |-> now, exit_time |-> None]
    IN  /\ IF record_integrity(row)
           THEN /\ records' = Insert(records, id, row)
                /\ seq' = [seq EXCEPT !.record = id]
                /\ spots' = update_parking_spot_status(row, spots)
                /\ lastWrite' = record_wrote(lastWrite, row.parking_spot_id[1], TRUE)
                /\ response' = Resp(201, Entity("ParkingRecord", id))
           ELSE /\ response' = InternalError
                /\ UNCHANGED <<records, seq, spots, lastWrite>>
        /\ UNCHANGED <<customers, vehicles, now, instance, vehicles_app>>

create_record(user, payload) ==
    /\ seq.record < MaxRecords
    /\ has_permissions_decorator("create_record", user,
           Some(<<"parking.add_parkingrecord">>), create_record_func(payload))

\* the deletion of a record freeing the spot the record referenced
delete_record_func_releasing(id) ==
    /\ IF id \notin DOMAIN records
       THEN /\ response' = NotFound("Registro")
            /\ UNCHANGED <<records, spots>>
       ELSE /\ records' = Delete(records, id)
            /\ spots' = [spots EXCEPT ![records[id].parking_spot_id[1]].is_occupied =
                                          Some(FALSE)]
            /\ response' = Bare(Message(deleted_menssage("Registro")))
    /\ UNCHANGED <<customers, vehicles, seq, now, instance, lastWrite, vehicles_app>>

\* record.delete(): no receiver listens to it; the view returns the bare message
delete_record_func(id) ==
    /\ IF id \notin DOMAIN records
       THEN /\ response' = NotFound("Registro")
            /\ UNCHANGED records
       ELSE /\ records' = Delete(records, id)
            /\ response' = Bare(Message(deleted_menssage("Registro")))
    /\ UNCHANGED <<customers, vehicles, spots, seq, now, instance, lastWrite, vehicles_app>>

\* the endpoint with a deletion that frees the spot of the record
delete_record_reconciling(user, id) ==
    has_permissions_decorator("delete_record", user,
        Some(<<"parking.delete_parkingrecord">>), delete_record_func_releasing(id))

delete_record(user, id) ==
    has_permissions_decorator("delete_record", user,
        Some(<<"parking.delete_parkingrecord">>), delete_record_func(id))

\* a patch that also frees the spot the record leaves
patch_record_func_freeing_old_spot(id, payload) ==
    /\ IF id \notin DOMAIN records
       THEN /\ response' = NotFound("Registro")
            /\ UNCHANGED <<records, spots, lastWrite>>
       ELSE LET patched == update_service(Schema(payload), records[id])
                old == records[id].parking_spot_id[1]
                freed == IF patched.parking_spot_id = records[id].parking_spot_id
                         THEN spots
                         ELSE [spots EXCEPT ![old].is_occupied = Some(FALSE)]
            IN  IF record_integrity(patched)
                THEN /\ records' = Insert(records, id, patched)
                     /\ spots' = update_parking_spot_status(patched,
                                     update_parking_spot_status(patched, freed))
                     /\ lastWrite' = record_wrote(lastWrite, patched.parking_spot_id[1],
                                                  patched.exit_time = None)
                     /\ response' = Resp(200, Entity("ParkingRecord", id))
                ELSE /\ response' = InternalError
                     /\ UNCHANGED <<records, spots, lastWrite>>
    /\ UNCHANGED <<customers, vehicles, seq, now, instance, vehicles_app>>

\* update_service(payload, record) saves, then the view saves the instance again;
\* each save runs the post_save receiver
patch_record_func(id, payload) ==
    /\ IF id \notin DOMAIN records
       THEN /\ response' = NotFound("Registro")
            /\ UNCHANGED <<records, spots, lastWrite>>
       ELSE LET patched == update_service(Schema(payload), records[id])
            IN  IF record_integrity(patched)
                THEN /\ records' = Insert(records, id, patched)
                     /\ spots' = update_parking_spot_status(patched,
                                     update_parking_spot_status(patched, spots))
                     /\ lastWrite' = record_wrote(lastWrite, patched.parking_spot_id[1],
                                                  patched.exit_time = None)
                     /\ response' = Resp(200, Entity("ParkingRecord", id))
                ELSE /\ response' = InternalError
                     /\ UNCHANGED <<records, spots, lastWrite>>
    /\ UNCHANGED <<customers, vehicles, seq, now, instance, vehicles_app>>

patch_record(user, id, payload) ==
    has_permissions_decorator("patch_record", user,
        Some(<<"parking.change_parkingrecord">>), patch_record_func(id, payload))

ParkingCallers == {"anon", "staff"}

\* the store the parking endpoints start from: one vehicle, of alice
InitParking ==
    /\ customers = EmptyTable
    /\ vehicles = Insert(EmptyTable, 1,
                         VehicleRow(auth_user["alice"].pk, Some(<<"A", "B", "1">>)))
    /\ spots = EmptyTable
    /\ records = EmptyTable
    /\ seq = [customer |-> 0, spot |-> 0, record |-> 0, vehicle |-> 1]
    /\ now = 0
    /\ instance = NoInstance
    /\ request = NoRequest
    /\ response = NoResponse
    /\ invoked = 0
    /\ lastWrite = EmptyTable
    /\ lookups = NoLookups /\ jobs = <<>> /\ procs = EmptyTable

NextParking ==
    \/ \E user \in ParkingCallers, payload \in CreateSpotPayloads :
          create_spot(user, payload)
    \/ \E user \in ParkingCallers, id \in SpotIds : delete_spot(user, id)
    \/ \E user \in ParkingCallers, id \in SpotIds, payload \in PatchSpotPayloads :
          patch_spot(user, id, payload)
    \/ \E user \in ParkingCallers, payload \in CreateRecordPayloads :
          create_record(user, payload)
    \/ \E user \in ParkingCallers, id \in RecordIds : delete_record(user, id)
    \/ \E user \in ParkingCallers, id \in RecordIds, payload \in PatchRecordPayloads :
          patch_record(user, id, payload)

SpecParking == InitParking /\ [][NextParking]_vars

-----------------------------------------------------------------------------
(* The ownership filter and the read endpoints that use it: vehicles and   *)
(* parking records.                                                        *)

MaxVehicles == 2
VehicleIds == 1..MaxVehicles

\* the license plate of the vehicle with each id; plates are unique
Plates == <<<<"A", "B", "1">>, <<"B", "A", "2">>, <<"A", "A", "3">>, <<"B", "B", "4">>>>
PlateNeedles == {<<"a", "b">>}
SpotNeedles == {<<"b">>}

\* the lookup-name filters of FilterVehicleSchema are left None
FilterVehicles ==
    [license_plate : Opt(PlateNeedles), vehicle_type : {None}, brand : {None},
     model : {None}, color : {None}]

FilterRecords ==
    [license_plate : Opt(PlateNeedles), spot_number : Opt(SpotNeedles),
     entry_time : {None}, exit_time : Opt({0})]

\* the filter letting through the rows of nobody's vehicles as well
Vehicle_for_owner_or_unowned(user) ==
    IF is_internal_user(user) THEN DOMAIN vehicles
    ELSE {v \in DOMAIN vehicles :
             vehicles[v].owner_id \in {None, auth_user[user].pk}}

\* Vehicle.objects.for_owner(user): the ids of the rows of the queryset
Vehicle_for_owner(user) ==
    IF is_internal_user(user) THEN DOMAIN vehicles
    ELSE {v \in DOMAIN vehicles : vehicles[v].owner_id = auth_user[user].pk}

\* ParkingRecord.objects.for_owner(user): the join on vehicle__owner
ParkingRecord_for_owner(user) ==
    IF is_internal_user(user) THEN DOMAIN records
    ELSE {r \in DOMAIN records :
             vehicles[records[r].vehicle_id[1]].owner_id = auth_user[user].pk}

\* FilterVehicleSchema.filter on a queryset of vehicles
filter_vehicles(filters, ids) ==
    {v \in ids :
        filters.license_plate # None =>
            icontains(vehicles[v].license_plate, filters.license_plate[1])}

\* a filter that lets through the records that satisfy any one predicate
filter_records_any(filters, ids) ==
    {r \in ids :
        \/ filters.license_plate # None /\
              icontains(vehicles[records[r].vehicle_id[1]].license_plate,
                        filters.license_plate[1])
        \/ filters.spot_number # None /\
              icontains(spots[records[r].parking_spot_id[1]].spot_number,
                        filters.spot_number[1])
        \/ filters.entry_time # None /\ records[r].entry_time = filters.entry_time[1]
        \/ filters.exit_time # None /\ records[r].exit_time = filters.exit_time
        \/ \A f \in DOMAIN filters : filters[f] = None}

\* FilterRecordSchema.filter on a queryset of records
filter_records(filters, ids) ==
    {r \in ids :
        /\ filters.license_plate # None =>
              icontains(vehicles[records[r].vehicle_id[1]].license_plate,
                        filters.license_plate[1])
        /\ filters.spot_number # None =>
              icontains(spots[records[r].parking_spot_id[1]].spot_number,
                        filters.spot_number[1])
        /\ filters.entry_time # None => records[r].entry_time = filters.entry_time[1]
        /\ filters.exit_time # None => records[r].exit_time = filters.exit_time}

\* filter(owner=AnonymousUser()) raises TypeError: each view's except clause answers
get_vehicles_func(user, filters) ==
    /\ response' = IF auth_user[user].is_anonymous /\ ~is_internal_user(user)
                   THEN InternalError
                   ELSE Resp(200, [ids |-> filter_vehicles(filters, Vehicle_for_owner(user))])
    /\ UNCHANGED <<store, seq, now, instance, lastWrite, vehicles_app>>

get_vehicles(user, filters) ==
    has_permissions_decorator("get_vehicles", user,
        Some(<<"vehicles.view_vehicle">>), get_vehicles_func(user, filters))

\* the first `except Exception` of get_vehicle answers 404 whatever was raised
get_vehicle_func(user, id) ==
    /\ response' = IF auth_user[user].is_anonymous /\ ~is_internal_user(user)
                   THEN NotFound("Veículo")
                   ELSE IF id \in Vehicle_for_owner(user)
                   THEN Resp(200, Entity("Vehicle", id))
                   ELSE NotFound("Veículo")
    /\ UNCHANGED <<store, seq, now, instance, lastWrite, vehicles_app>>

get_vehicle(user, id) ==
    has_permissions_decorator("get_vehicle", user,
        Some(<<"vehicles.view_vehicle">>), get_vehicle_func(user, id))

get_records_func(user, filters) ==
    /\ response' = IF auth_user[user].is_anonymous /\ ~is_internal_user(user)
                   THEN InternalError
                   ELSE Resp(200, [ids |-> filter_records(filters,
                                              ParkingRecord_for_owner(user))])
    /\ UNCHANGED <<store, seq, now, instance, lastWrite, vehicles_app>>

get_records(user, filters) ==
    has_permissions_decorator("get_records", user,
        Some(<<"parking.view_parkingrecord">>), get_records_func(user, filters))

\* a lookup that tells a record of somebody else from a record that is not there
get_record_func_forbidding_hidden(user, id) ==
    /\ response' = IF auth_user[user].is_anonymous /\ ~is_internal_user(user)
                   THEN InternalError
                   ELSE IF id \in ParkingRecord_for_owner(user)
                   THEN Resp(200, Entity("ParkingRecord", id))
                   ELSE IF id \in DOMAIN records
                   THEN Forbidden
                   ELSE NotFound("Registro")
    /\ UNCHANGED <<store, seq, now, instance, lastWrite, vehicles_app>>

get_record_func(user, id) ==
    /\ response' = IF auth_user[user].is_anonymous /\ ~is_internal_user(user)
                   THEN InternalError
                   ELSE IF id \in ParkingRecord_for_owner(user)
                   THEN Resp(200, Entity("ParkingRecord", id))
                   ELSE NotFound("Registro")
    /\ UNCHANGED <<store, seq, now, instance, lastWrite, vehicles_app>>

get_record(user, id) ==
    has_permissions_decorator("get_record", user,
        Some(<<"parking.view_parkingrecord">>), get_record_func(user, id))

OwnerCallers == {"anon", "bob", "alice", "staff"}
OwnerPks == {auth_user["bob"].pk, auth_user["alice"].pk}

\* a store the write endpoints and the admin can have produced: every vehicle
\* with no owner or an owner of its own (OneToOneField), one spot, and records
\* of these vehicles on that spot, all closed but the last
InitOwner ==
    /\ customers = EmptyTable
    /\ \E owners \in [VehicleIds -> {None} \cup OwnerPks] :
          /\ \A i, j \in VehicleIds :
                i # j /\ owners[i] # None => owners[i] # owners[j]
          /\ vehicles = [i \in VehicleIds |-> VehicleRow(owners[i], Some(Plates[i]))]
    /\ spots = Insert(EmptyTable, 1,
                      [spot_number |-> Some(<<"A", "1">>), is_occupied |-> Some(FALSE),
                       created_at |-> 0, updated_at |-> 0])
    /\ \E n \in 0..MaxRecords :
          /\ \E of \in [1..n -> VehicleIds] :
                records = [i \in 1..n |->
                              [vehicle_id |-> Some(of[i]), parking_spot_id |-> Some(1),
                               entry_time |-> 0,
                               exit_time |-> IF i = n THEN None ELSE Some(0)]]
          /\ seq = [customer |-> 0, spot |-> 1, record |-> n, vehicle |-> MaxVehicles]
    /\ now = 0
    /\ instance = NoInstance
    /\ request = NoRequest
    /\ response = NoResponse
    /\ invoked = 0
    /\ lastWrite = EmptyTable
    /\ lookups = NoLookups /\ jobs = <<>> /\ procs = EmptyTable

\* 9: the id of no row
NextOwner ==
    \/ \E user \in OwnerCallers, filters \in FilterVehicles : get_vehicles(user, filters)
    \/ \E user \in OwnerCallers, id \in VehicleIds \cup {9} : get_vehicle(user, id)
    \/ \E user \in OwnerCallers, filters \in FilterRecords : get_records(user, filters)
    \/ \E user \in OwnerCallers, id \in RecordIds \cup {9} : get_record(user, id)

SpecOwner == InitOwner /\ [][NextOwner]_vars

-----------------------------------------------------------------------------
(* The relationship resolver of apps/vehicles/services/update_vehicle.py.  *)
(* A relationship value of a body is an int or a str.                      *)

IntValue(i) == [int |-> i]
StrValue(text) == [str |-> text]
IsInt(value) == DOMAIN value = {"int"}

\* django.utils.text.slugify(value, allow_unicode=True), step by step:
\* re.sub(r"[^\w\s-]", "", value.lower())
RECURSIVE keep_word_space_hyphen(_)
keep_word_space_hyphen(text) ==
    IF text = <<>> THEN <<>>
    ELSE IF Head(text) \in {"!", "."}
    THEN keep_word_space_hyphen(Tail(text))
    ELSE <<lower(Head(text))>> \o keep_word_space_hyphen(Tail(text))

\* re.sub(r"[-\s]+", "-", value)
RECURSIVE collapse_separators(_)
collapse_separators(text) ==
    IF text = <<>> THEN <<>>
    ELSE IF Head(text) \in {" ", "-"}
    THEN IF Tail(text) # <<>> /\ Head(Tail(text)) \in {" ", "-"}
         THEN collapse_separators(Tail(text))
         ELSE <<"-">> \o collapse_separators(Tail(text))
    ELSE <<Head(text)>> \o collapse_separators(Tail(text))

\* str.strip(chars)
RECURSIVE lstrip(_, _)
lstrip(text, chars) ==
    IF text # <<>> /\ Head(text) \in chars THEN lstrip(Tail(text), chars) ELSE text

RECURSIVE rstrip(_, _)
rstrip(text, chars) ==
    IF text # <<>> /\ text[Len(text)] \in chars
    THEN rstrip(SubSeq(text, 1, Len(text) - 1), chars) ELSE text

strip(text, chars) == rstrip(lstrip(text, chars), chars)

slugify(text) ==
    strip(collapse_separators(keep_word_space_hyphen(text)), {"-", "_"})

\* resolve_relationship's normalisation: slugify(value.strip(" "), allow_unicode=True)
normalize(text) == slugify(strip(text, {" "}))

\* a new row of a lookup table (hex_code and description, both nullable, stay null)
LookupRow(name) == [name |-> Some(name), created_at |-> now, updated_at |-> now]

\* the primary key the next INSERT into the table gets
next_pk(table) ==
    IF DOMAIN table = {} THEN 1
    ELSE 1 + CHOOSE i \in DOMAIN table : \A j \in DOMAIN table : j <= i

\* find-or-create that inserts without looking for the name first
get_or_create_always_creates(table, name) ==
    [raised |-> None, pk |-> Some(next_pk(table)),
     table |-> Insert(table, next_pk(table), LookupRow(name))]

\* model.objects.get_or_create(name=value): the row found or inserted
get_or_create(table, name) ==
    LET found == {i \in DOMAIN table : table[i].name = Some(name)}
    IN  IF found # {}
        THEN [raised |-> None, pk |-> Some(CHOOSE i \in found : TRUE), table |-> table]
        ELSE [raised |-> None, pk |-> Some(next_pk(table)),
              table |-> Insert(table, next_pk(table), LookupRow(name))]

\* resolve_relationship that takes an id of no row for no value
resolve_relationship_lenient(table, value) ==
    IF value = None
    THEN [raised |-> None, pk |-> None, table |-> table]
    ELSE IF IsInt(value[1])
    THEN IF value[1].int \in DOMAIN table
         THEN [raised |-> None, pk |-> Some(value[1].int), table |-> table]
         ELSE [raised |-> None, pk |-> None, table |-> table]
    ELSE get_or_create(table, normalize(value[1].str))

\* resolve_relationship(model, value): value is None, Some(IntValue) or Some(StrValue)
resolve_relationship(table, value) ==
    IF value = None
    THEN [raised |-> None, pk |-> None, table |-> table]
    ELSE IF IsInt(value[1])
    THEN IF value[1].int \in DOMAIN table
         THEN [raised |-> None, pk |-> Some(value[1].int), table |-> table]
         ELSE [raised |-> Some("DoesNotExist"), pk |-> None, table |-> table]
    ELSE get_or_create(table, normalize(value[1].str))

\* data.pop(field, None)
pop(data, field) == IF field \in DOMAIN data THEN data[field] ELSE None

\* the loop over relation_map that assigns a resolved row even when it is None
RECURSIVE resolve_all_assigning_none(_, _, _)
resolve_all_assigning_none(i, data, st) ==
    IF i > Len(relation_map) \/ st.raised # None THEN st
    ELSE LET field == relation_map[i]
             r == resolve_relationship(st.lookups[field], pop(data, field))
         IN  resolve_all_assigning_none(i + 1, data,
                 [raised |-> r.raised,
                  lookups |-> [st.lookups EXCEPT ![field] = r.table],
                  vehicle |-> IF r.raised = None /\ field \in DOMAIN data
                              THEN [st.vehicle EXCEPT ![attname(field)] = r.pk]
                              ELSE st.vehicle])

\* the loop over relation_map from its i-th entry on: `if value: setattr(...)`
RECURSIVE resolve_all(_, _, _)
resolve_all(i, data, st) ==
    IF i > Len(relation_map) \/ st.raised # None THEN st
    ELSE LET field == relation_map[i]
             r == resolve_relationship(st.lookups[field], pop(data, field))
         IN  resolve_all(i + 1, data,
                 [raised |-> r.raised,
                  lookups |-> [st.lookups EXCEPT ![field] = r.table],
                  vehicle |-> IF r.pk # None
                              THEN [st.vehicle EXCEPT ![attname(field)] = r.pk]
                              ELSE st.vehicle])

\* the constraints of vehicles_vehicle an INSERT or UPDATE of row `id` must meet
vehicle_integrity(table, id, row, lk) ==
    /\ row.license_plate # None
    /\ \A j \in DOMAIN table \ {id} : table[j].license_plate # row.license_plate
    /\ row.owner_id # None =>
          /\ row.owner_id[1] \in UserPks
          /\ \A j \in DOMAIN table \ {id} : table[j].owner_id # row.owner_id
    /\ \A field \in LookupModels :
          row[attname(field)] # None => row[attname(field)][1] \in DOMAIN lk[field]

\* the body of update_vehicle on the stored vehicle `id`: what the transaction
\* holds when the body ends, and the exception it ended with, if any
update_vehicle_body(payload, id) ==
    LET data == dict_exclude_unset(payload)
        st == resolve_all(1, data,
                  [raised |-> None, lookups |-> lookups, vehicle |-> vehicles[id]])
        rest == [f \in DOMAIN data \ LookupModels |-> data[f]]
        patched == auto_now(update_service(Dict(rest), st.vehicle))
    IN  IF st.raised # None THEN st
        ELSE IF ~vehicle_integrity(vehicles, id, patched, st.lookups)
        THEN [st EXCEPT !.raised = Some("IntegrityError")]
        ELSE [st EXCEPT !.vehicle = patched]

\* the block run in autocommit mode: what it wrote before it raised stays
transaction_autocommit(out, id) ==
    [raised |-> out.raised,
     lookups |-> out.lookups,
     vehicles |-> IF out.raised = None THEN Insert(vehicles, id, out.vehicle)
                  ELSE vehicles]

\* @transaction.atomic: commit when the body returns, roll back when it raises
transaction_atomic(out, id) ==
    IF out.raised = None
    THEN [raised |-> None, lookups |-> out.lookups,
          vehicles |-> Insert(vehicles, id, out.vehicle)]
    ELSE [raised |-> out.raised, lookups |-> lookups, vehicles |-> vehicles]

update_vehicle(payload, id) == transaction_atomic(update_vehicle_body(payload, id), id)

\* the receiver enqueueing on every save of a vehicle with a field missing
complete_vehicle_data_post_save_on_every_save(queue, inst, created) ==
    LET missing_fields ==
            inst.brand_id = None \/ inst.color_id = None \/ inst.model_id = None
    IN  IF missing_fields THEN Append(queue, inst.license_plate) ELSE queue

\* the post_save receiver of Vehicle: the queue after complete_vehicle_data.delay
complete_vehicle_data_post_save(queue, inst, created) ==
    LET missing_fields ==
            inst.brand_id = None \/ inst.color_id = None \/ inst.model_id = None
    IN  IF created /\ missing_fields THEN Append(queue, inst.license_plate) ELSE queue

\* update_service saves and update_vehicle saves again: post_save is sent twice,
\* each time with created=False
patch_vehicle_func(id, payload) ==
    /\ IF id \notin DOMAIN vehicles
       THEN /\ response' = NotFound("Veículo")
            /\ UNCHANGED <<vehicles, lookups, jobs>>
       ELSE LET done == update_vehicle(payload, id)
            IN  /\ vehicles' = done.vehicles
                /\ lookups' = done.lookups
                /\ jobs' = IF done.raised # None THEN jobs
                           ELSE complete_vehicle_data_post_save(
                                    complete_vehicle_data_post_save(
                                        jobs, done.vehicles[id], FALSE),
                                    done.vehicles[id], FALSE)
                /\ response' = IF done.raised = None
                               THEN Resp(200, Entity("Vehicle", id))
                               ELSE InternalError
    /\ UNCHANGED <<customers, spots, records, seq, now, instance, lastWrite, procs>>

patch_vehicle(user, id, payload) ==
    has_permissions_decorator("patch_vehicle", user,
        Some(<<"vehicles.change_vehicle">>), patch_vehicle_func(id, payload))

\* a body of PATCH /vehicles/{id} that carries the given items and nothing else
PatchVehicleFields ==
    {"owner_id", "license_plate", "vehicle_type", "brand", "color", "model"}

PatchVehicleBody(items) ==
    [f \in PatchVehicleFields |-> IF f \in DOMAIN items THEN Set(items[f]) ELSE Unset]

\* names a body gives: two that normalise to "ab", and "!" that normalises to ""
NameAb == StrValue(<<"A", "b">>)
NameSpacedAb == StrValue(<<" ", "a", "B", " ">>)
NamePunctuation == StrValue(<<"!">>)

\* the bodies drawn; 9 is the id of no lookup row, Plates[1] the plate of vehicle 1
PatchVehiclePayloads ==
    {PatchVehicleBody(items) : items \in
        {EmptyTable,
         [brand |-> None],
         [brand |-> Some(IntValue(1))],
         [brand |-> Some(IntValue(9))],
         [brand |-> Some(NameSpacedAb)],
         [brand |-> Some(NameAb)],
         [vehicle_type |-> Some(NameAb)],
         [vehicle_type |-> Some(NameAb), brand |-> Some(IntValue(9))],
         [vehicle_type |-> Some(NameAb), model |-> Some(IntValue(9))],
         [vehicle_type |-> None, brand |-> Some(IntValue(1))],
         [color |-> Some(NamePunctuation)],
         [color |-> Some(NamePunctuation), license_plate |-> Some(Plates[1])],
         [license_plate |-> None],
         [vehicle_type |-> Some(NameAb), license_plate |-> None],
         [brand |-> Some(NameSpacedAb), color |-> Some(NamePunctuation),
          model |-> Some(IntValue(9))]}}

ResolverCallers == {"anon", "staff"}

\* the brands stored before: none, one named by a normalised name, or one the
\* brand endpoints stored under a name that is not normalised
InitBrands ==
    {EmptyTable,
     Insert(EmptyTable, 1, [name |-> Some(<<"a", "b">>), created_at |-> 0, updated_at |-> 0]),
     Insert(EmptyTable, 1, [name |-> Some(<<"A", "b">>), created_at |-> 0, updated_at |-> 0])}

InitResolver ==
    /\ customers = EmptyTable
    /\ vehicles = [i \in VehicleIds |-> VehicleRow(None, Some(Plates[i]))]
    /\ spots = EmptyTable
    /\ records = EmptyTable
    /\ seq = [customer |-> 0, spot |-> 0, record |-> 0, vehicle |-> MaxVehicles]
    /\ now = 0
    /\ instance = NoInstance
    /\ request = NoRequest
    /\ response = NoResponse
    /\ invoked = 0
    /\ lastWrite = EmptyTable
    /\ \E brands \in InitBrands : lookups = [NoLookups EXCEPT !["brand"] = brands]
    /\ jobs = <<>>
    /\ procs = EmptyTable

NextResolver ==
    \E user \in ResolverCallers, id \in VehicleIds \cup {9},
       payload \in PatchVehiclePayloads : patch_vehicle(user, id, payload)

SpecResolver == InitResolver /\ [][NextResolver]_vars

-----------------------------------------------------------------------------
(* Vehicle creation and the enrichment job: apps/vehicles/api,             *)
(* apps/vehicles/signals and apps/vehicles/tasks.py.  `jobs` is the queue  *)
(* of the broker: the license plates complete_vehicle_data.delay published.*)

\* the body of POST /vehicles: CreateVehicleSchema, every field None by default
CreateVehicleBody(license_plate, vehicle_type_id, brand) ==
    [vehicle_type_id |-> vehicle_type_id, owner_id |-> None,
     license_plate |-> license_plate, brand |-> brand, model |-> None, color |-> None]

\* Vehicle(**kwargs): a relationship keyword takes an instance or None, so the
\* primary key the body carries under `brand`, `model` or `color` is refused
Vehicle_init_raises(kwargs) ==
    \E field \in {"brand", "model", "color"} : kwargs[field] # None

\* Vehicle.objects.create(**payload.dict()) with the broker reachable or not:
\* the INSERT is committed before post_save is sent, and delay publishes to the
\* broker inside the receiver
Vehicle_objects_create(kwargs, inst, broker) ==
    LET id == seq.vehicle + 1
        stored == Insert(vehicles, id, inst)
        queue == complete_vehicle_data_post_save(jobs, inst, TRUE)
    IN  IF Vehicle_init_raises(kwargs)
        THEN [raised |-> Some("ValueError"), vehicles |-> vehicles, jobs |-> jobs,
              seq |-> seq]
        ELSE IF ~vehicle_integrity(vehicles, id, inst, lookups)
        THEN [raised |-> Some("IntegrityError"), vehicles |-> vehicles, jobs |-> jobs,
              seq |-> seq]
        ELSE IF queue # jobs /\ ~broker
        THEN [raised |-> Some("OperationalError"), vehicles |-> stored, jobs |-> jobs,
              seq |-> [seq EXCEPT !.vehicle = id]]
        ELSE [raised |-> None, vehicles |-> stored, jobs |-> queue,
              seq |-> [seq EXCEPT !.vehicle = id]]

\* the row of the new vehicle of a body that Vehicle(**kwargs) accepts
NewVehicle(kwargs) ==
    [vehicle_type_id |-> kwargs.vehicle_type_id, owner_id |-> kwargs.owner_id,
     license_plate |-> kwargs.license_plate,
     brand_id |-> None, model_id |-> None, color_id |-> None,
     created_at |-> now, updated_at |-> now]

create_vehicle_func(payload, broker) ==
    LET done == Vehicle_objects_create(payload, NewVehicle(payload), broker)
    IN  /\ seq.vehicle < MaxVehicles
        /\ vehicles' = done.vehicles
        /\ jobs' = done.jobs
        /\ seq' = done.seq
        /\ response' = IF done.raised = None
                       THEN Resp(201, Entity("Vehicle", seq.vehicle + 1))
                       ELSE InternalError
        /\ UNCHANGED <<customers, spots, records, now, instance, lastWrite, lookups,
                       procs>>

create_vehicle(user, payload, broker) ==
    has_permissions_decorator("create_vehicle", user,
        Some(<<"vehicles.add_vehicle">>), create_vehicle_func(payload, broker))

\* a vehicle created through the ORM with its relationships given as instances
\* (the keywords hold no primary key): the other sender of post_save with
\* created=True
Vehicle_create(inst, broker) ==
    LET done == Vehicle_objects_create(CreateVehicleBody(inst.license_plate, None, None),
                                       inst, broker)
    IN  /\ seq.vehicle < MaxVehicles
        /\ done.raised = None
        /\ vehicles' = done.vehicles
        /\ jobs' = done.jobs
        /\ seq' = done.seq
        /\ UNCHANGED <<customers, spots, records, now, instance, request, response,
                       invoked, lastWrite, lookups, procs>>

\* int(text) of a text of decimal digits
Digits == <<"0", "1", "2", "3", "4", "5", "6", "7", "8", "9">>
is_number(text) ==
    text # <<>> /\ \A i \in DOMAIN text : \E d \in DOMAIN Digits : Digits[d] = text[i]
RECURSIVE int(_)
int(text) ==
    IF text = <<>> THEN 0
    ELSE 10 * int(SubSeq(text, 1, Len(text) - 1))
         + (CHOOSE d \in DOMAIN Digits : Digits[d] = text[Len(text)]) - 1

\* what the worker read from the page: the browser raised, or the cells of the
\* row of the plate (None when the table has no such row)
Page(raised, brand, model, color) ==
    [raised |-> raised, brand |-> brand, model |-> model, color |-> color]

\* UPDATE of every vehicle, whatever its plate
QuerySet_update_every_row(table, license_plate, brand, model, color, lk) ==
    LET matched == DOMAIN table
        pks == [f \in {"brand", "model", "color"} |->
                   IF f = "brand" THEN brand ELSE IF f = "model" THEN model ELSE color]
    IN  IF \E f \in DOMAIN pks : ~is_number(pks[f])
        THEN [raised |-> Some("ValueError"), vehicles |-> table]
        ELSE IF matched # {} /\ \E f \in DOMAIN pks : int(pks[f]) \notin DOMAIN lk[f]
        THEN [raised |-> Some("IntegrityError"), vehicles |-> table]
        ELSE [raised |-> None,
              vehicles |-> [id \in DOMAIN table |->
                  IF id \in matched
                  THEN [table[id] EXCEPT !.brand_id = Some(int(brand)),
                                         !.model_id = Some(int(model)),
                                         !.color_id = Some(int(color))]
                  ELSE table[id]]]

\* Vehicle.objects.filter(license_plate=...).update(brand=, model=, color=) with
\* three texts: a foreign key column takes the primary key int(text) and refuses
\* a text that is no number; no save, no signal, updated_at untouched
QuerySet_update(table, license_plate, brand, model, color, lk) ==
    LET matched == {id \in DOMAIN table : table[id].license_plate = license_plate}
        pks == [f \in {"brand", "model", "color"} |->
                   IF f = "brand" THEN brand ELSE IF f = "model" THEN model ELSE color]
    IN  IF \E f \in DOMAIN pks : ~is_number(pks[f])
        THEN [raised |-> Some("ValueError"), vehicles |-> table]
        ELSE IF matched # {} /\ \E f \in DOMAIN pks : int(pks[f]) \notin DOMAIN lk[f]
        THEN [raised |-> Some("IntegrityError"), vehicles |-> table]
        ELSE [raised |-> None,
              vehicles |-> [id \in DOMAIN table |->
                  IF id \in matched
                  THEN [table[id] EXCEPT !.brand_id = Some(int(brand)),
                                         !.model_id = Some(int(model)),
                                         !.color_id = Some(int(color))]
                  ELSE table[id]]]

\* `if brand and model and color`
all_found(page) ==
    \A f \in {"brand", "model", "color"} : page[f] # None /\ page[f][1] # <<>>

\* the task complete_vehicle_data(license_plate) on the page the browser shows
complete_vehicle_data(license_plate, page, table, lk) ==
    IF page.raised
    THEN [raised |-> Some("Error"), vehicles |-> table]
    ELSE IF all_found(page)
    THEN QuerySet_update(table, license_plate, page.brand[1], page.model[1],
                         page.color[1], lk)
    ELSE [raised |-> None, vehicles |-> table]

\* a worker takes a published job and runs the task
worker(i, page) ==
    /\ i \in DOMAIN jobs
    /\ vehicles' = complete_vehicle_data(jobs[i], page, vehicles, lookups).vehicles
    /\ jobs' = [k \in 1..(Len(jobs) - 1) |-> IF k < i THEN jobs[k] ELSE jobs[k + 1]]
    /\ UNCHANGED <<customers, spots, records, seq, now, instance, request, response,
                   invoked, lastWrite, lookups, procs>>

CreateVehiclePayloads ==
    {CreateVehicleBody(Some(Plates[1]), None, None),
     CreateVehicleBody(Some(Plates[2]), None, None),
     CreateVehicleBody(Some(Plates[2]), Some(1), None),
     CreateVehicleBody(Some(Plates[2]), Some(9), None),
     CreateVehicleBody(Some(Plates[1]), None, Some(1))}

\* vehicles as the ORM creates them: every relationship set, or the color missing
CreatedInstances ==
    {[VehicleRow(None, Some(Plates[1])) EXCEPT
          !.brand_id = Some(2), !.model_id = Some(1), !.color_id = color]
        : color \in {None, Some(1)}}

Pages ==
    {Page(TRUE, None, None, None),
     Page(FALSE, None, None, None),
     Page(FALSE, Some(<<"1">>), Some(<<"1">>), Some(<<"1">>)),
     Page(FALSE, Some(<<"1">>), Some(<<>>), Some(<<"1">>)),
     Page(FALSE, Some(<<"9">>), Some(<<"1">>), Some(<<"1">>)),
     Page(FALSE, Some(<<"A", "b">>), Some(<<"A", "b">>), Some(<<"A", "b">>))}

EnrichPatchPayloads ==
    {PatchVehicleBody(EmptyTable),
     PatchVehicleBody([brand |-> Some(IntValue(1))]),
     PatchVehicleBody([color |-> None])}

EnrichCallers == {"anon", "alice"}

\* one brand, model, color and vehicle type are stored, and a second brand
InitLookups ==
    [m \in LookupModels |->
        IF m = "brand"
        THEN [i \in {1, 2} |-> LookupRow(IF i = 1 THEN <<"a", "b">> ELSE <<"c", "d">>)]
        ELSE [i \in {1} |-> LookupRow(<<"a", "b">>)]]

InitEnrich ==
    /\ customers = EmptyTable
    /\ vehicles = EmptyTable
    /\ spots = EmptyTable
    /\ records = EmptyTable
    /\ seq = [customer |-> 0, spot |-> 0, record |-> 0, vehicle |-> 0]
    /\ now = 0
    /\ instance = NoInstance
    /\ request = NoRequest
    /\ response = NoResponse
    /\ invoked = 0
    /\ lastWrite = EmptyTable
    /\ lookups = InitLookups
    /\ jobs = <<>>
    /\ procs = EmptyTable

NextEnrich ==
    \/ \E user \in EnrichCallers, payload \in CreateVehiclePayloads,
          broker \in BOOLEAN : create_vehicle(user, payload, broker)
    \/ \E inst \in CreatedInstances, broker \in BOOLEAN : Vehicle_create(inst, broker)
    \/ \E user \in EnrichCallers, id \in VehicleIds,
          payload \in EnrichPatchPayloads : patch_vehicle(user, id, payload)
    \/ \E i \in 1..MaxVehicles, page \in Pages : worker(i, page)

SpecEnrich == InitEnrich /\ [][NextEnrich]_vars

-----------------------------------------------------------------------------
(* Concurrent update_vehicle calls that give a brand by name.  Each call   *)
(* is a transaction of the production database (PostgreSQL, read           *)
(* committed): it reads committed rows and its own, and its INSERT is      *)
(* seen by the others when it commits.  Call p patches vehicle p;          *)
(* procs[p] is where the call stands in get_or_create.                     *)

\* the sequence of the brand table hands out no key above MaxBrands
MaxBrands == 3

\* `caught` is the IntegrityError get_or_create caught, if any
Idle == [pc |-> "idle", name |-> <<>>, pk |-> None, pending |-> None, caught |-> None]

\* the names of a set of lookup rows
names_of(table, ids) == {table[i].name : i \in ids}

\* a table that lets any number of rows carry one name
name_conflicts_unconstrained(names, name) == FALSE

\* unique=True of the name column: a row of that name is in the way
name_conflicts(names, name) == Some(name) \in names

\* the names the other calls inserted and have not committed
pending_names(p) ==
    {Some(procs[q].name) : q \in {q \in DOMAIN procs \ {p} : procs[q].pending # None}}

\* the primary key of the next INSERT: the sequence is past every key handed out
next_lookup_pk(table) ==
    LET used == DOMAIN table \cup {procs[q].pending[1] :
                                       q \in {q \in DOMAIN procs : procs[q].pending # None}}
    IN  IF used = {} THEN 1 ELSE 1 + CHOOSE i \in used : \A j \in used : j <= i

\* PATCH /vehicles/{p} with {"brand": value} enters update_vehicle
begin_update_vehicle(p, value) ==
    /\ procs[p].pc = "idle"
    /\ procs' = [procs EXCEPT ![p] = [Idle EXCEPT !.pc = "get",
                                                   !.name = normalize(value.str)]]
    /\ UNCHANGED <<store, seq, now, instance, request, response, invoked, lastWrite,
                   lookups, jobs>>

\* get_or_create: self.get(name=value)
get_or_create_get(p) ==
    LET table == lookups["brand"]
        found == {i \in DOMAIN table : table[i].name = Some(procs[p].name)}
    IN  /\ procs[p].pc = "get"
        /\ procs' = [procs EXCEPT ![p] =
               IF found # {}
               THEN [@ EXCEPT !.pc = "save", !.pk = Some(CHOOSE i \in found : TRUE)]
               ELSE [@ EXCEPT !.pc = "create"]]
        /\ UNCHANGED <<store, seq, now, instance, request, response, invoked, lastWrite,
                       lookups, jobs>>

\* get_or_create: self.create(name=value) in a savepoint.  The INSERT waits while
\* another transaction holds an uncommitted row of the name, and raises
\* IntegrityError when a committed row has it
get_or_create_create(p) ==
    LET table == lookups["brand"]
    IN  /\ procs[p].pc = "create"
        /\ ~name_conflicts(pending_names(p), procs[p].name)
        /\ next_lookup_pk(table) <= MaxBrands
        /\ procs' = [procs EXCEPT ![p] =
               IF name_conflicts(names_of(table, DOMAIN table), procs[p].name)
               THEN [@ EXCEPT !.pc = "get_again", !.caught = Some("IntegrityError")]
               ELSE [@ EXCEPT !.pc = "save", !.pk = Some(next_lookup_pk(table)),
                              !.pending = Some(next_lookup_pk(table))]]
        /\ UNCHANGED <<store, seq, now, instance, request, response, invoked, lastWrite,
                       lookups, jobs>>

\* get_or_create after IntegrityError: self.get(name=value) again
get_or_create_get_again(p) ==
    LET table == lookups["brand"]
        found == {i \in DOMAIN table : table[i].name = Some(procs[p].name)}
    IN  /\ procs[p].pc = "get_again"
        /\ found # {}
        /\ procs' = [procs EXCEPT ![p] =
               [@ EXCEPT !.pc = "save", !.pk = Some(CHOOSE i \in found : TRUE)]]
        /\ UNCHANGED <<store, seq, now, instance, request, response, invoked, lastWrite,
                       lookups, jobs>>

\* the rest of update_vehicle: setattr, the two saves, and the end of the
\* transaction; `raised` when a save raised and the transaction is rolled back
end_update_vehicle(p, raised) ==
    /\ procs[p].pc = "save"
    /\ procs' = [procs EXCEPT ![p] = Idle]
    /\ IF raised
       THEN UNCHANGED <<vehicles, lookups>>
       ELSE /\ vehicles' = [vehicles EXCEPT ![p] =
                               auto_now([@ EXCEPT !.brand_id = procs[p].pk])]
            /\ lookups' = IF procs[p].pending = None THEN lookups
                          ELSE [lookups EXCEPT !["brand"] =
                                   Insert(@, procs[p].pending[1], LookupRow(procs[p].name))]
    /\ UNCHANGED <<customers, spots, records, seq, now, instance, request, response,
                   invoked, lastWrite, jobs>>

RaceValues == {NameAb, NameSpacedAb, StrValue(<<"c", "d">>)}

InitRace ==
    /\ customers = EmptyTable
    /\ vehicles = [i \in VehicleIds |-> VehicleRow(None, Some(Plates[i]))]
    /\ spots = EmptyTable
    /\ records = EmptyTable
    /\ seq = [customer |-> 0, spot |-> 0, record |-> 0, vehicle |-> MaxVehicles]
    /\ now = 0
    /\ instance = NoInstance
    /\ request = NoRequest
    /\ response = NoResponse
    /\ invoked = 0
    /\ lastWrite = EmptyTable
    /\ lookups = NoLookups
    /\ jobs = <<>>
    /\ procs = [p \in VehicleIds |-> Idle]

NextRace ==
    \E p \in VehicleIds :
        \/ \E value \in RaceValues : begin_update_vehicle(p, value)
        \/ get_or_create_get(p)
        \/ get_or_create_create(p)
        \/ get_or_create_get_again(p)
        \/ \E raised \in BOOLEAN : end_update_vehicle(p, raised)

SpecRace == InitRace /\ [][NextRace]_vars

-----------------------------------------------------------------------------
(* The endpoints of the four lookup models: vehicle_brand_api.py,          *)
(* vehicle_color_api.py, vehicle_model_api.py and vehicle_types_api.py,    *)
(* which differ in the model and its label (patch_vehicle_color assigns    *)
(* the carried fields itself and saves once).  `model` is the key of the   *)
(* lookup table.                                                           *)

lookup_label ==
    [brand |-> "Marca de Veículo", color |-> "Cor de Veículo",
     model |-> "Modelo de Veículo", vehicle_type |-> "Tipo De Veículo"]

lookup_codename ==
    [brand |-> "vehiclebrand", color |-> "vehiclecolor",
     model |-> "vehiclemodel", vehicle_type |-> "vehicletype"]

\* "vehicles.<action>_<codename>"
lookup_permission(action, model) == <<"vehicles", action, lookup_codename[model]>>

\* a lookup table whose name column is not unique
lookup_integrity_without_unique(table, id, row) ==
    row.name # None

\* name NOT NULL and unique
lookup_integrity(table, id, row) ==
    /\ row.name # None
    /\ \A j \in DOMAIN table \ {id} : table[j].name # row.name

\* a deletion that asks no vehicle
unprotected(model, id) == {}

\* on_delete=PROTECT of the four foreign keys of Vehicle: the vehicles that
\* reference the row
protecting_vehicles(model, id) ==
    {v \in DOMAIN vehicles : vehicles[v][attname(model)] = Some(id)}

create_lookup_func(model, payload) ==
    LET table == lookups[model]
        id == next_pk(table)
        row == dict(payload) @@ [created_at |-> now, updated_at |-> now]
    IN  /\ IF lookup_integrity(table, id, row)
           THEN /\ lookups' = [lookups EXCEPT ![model] = Insert(table, id, row)]
                /\ response' = Resp(201, Entity(lookup_codename[model], id))
           ELSE /\ response' = InternalError
                /\ UNCHANGED lookups
        /\ UNCHANGED <<store, seq, now, instance, lastWrite, jobs, procs>>

create_lookup(user, model, payload) ==
    has_permissions_decorator("create_lookup", user,
        Some(<<lookup_permission("add", model)>>), create_lookup_func(model, payload))

\* update_service(payload, row) saves, then the view saves the row again
patch_lookup_func(model, id, payload) ==
    LET table == lookups[model]
    IN  /\ IF id \notin DOMAIN table
           THEN /\ response' = NotFound(lookup_label[model])
                /\ UNCHANGED lookups
           ELSE LET patched == auto_now(update_service(Schema(payload), table[id]))
                IN  IF lookup_integrity(table, id, patched)
                    THEN /\ lookups' = [lookups EXCEPT ![model] = Insert(table, id, patched)]
                         /\ response' = Resp(200, Entity(lookup_codename[model], id))
                    ELSE /\ response' = InternalError
                         /\ UNCHANGED lookups
        /\ UNCHANGED <<store, seq, now, instance, lastWrite, jobs, procs>>

patch_lookup(user, model, id, payload) ==
    has_permissions_decorator("patch_lookup", user,
        Some(<<lookup_permission("change", model)>>), patch_lookup_func(model, id, payload))

\* row.delete(): ProtectedError while a vehicle references the row; the view
\* returns the bare message when the row is gone
delete_lookup_func(model, id) ==
    LET table == lookups[model]
    IN  /\ IF id \notin DOMAIN table
           THEN /\ response' = NotFound(lookup_label[model])
                /\ UNCHANGED lookups
           ELSE IF protecting_vehicles(model, id) # {}
           THEN /\ response' = InternalError
                /\ UNCHANGED lookups
           ELSE /\ lookups' = [lookups EXCEPT ![model] = Delete(table, id)]
                /\ response' = Bare(Message(deleted_menssage(lookup_label[model])))
        /\ UNCHANGED <<store, seq, now, instance, lastWrite, jobs, procs>>

delete_lookup(user, model, id) ==
    has_permissions_decorator("delete_lookup", user,
        Some(<<lookup_permission("delete", model)>>), delete_lookup_func(model, id))

\* Vehicle.objects.get(id=id).delete(): parking records protect the vehicle; the
\* view returns the bare message
delete_vehicle_func(id) ==
    /\ IF id \notin DOMAIN vehicles
       THEN /\ response' = NotFound("Veículo")
            /\ UNCHANGED vehicles
       ELSE IF \E r \in DOMAIN records : records[r].vehicle_id = Some(id)
       THEN /\ response' = InternalError
            /\ UNCHANGED vehicles
       ELSE /\ vehicles' = Delete(vehicles, id)
            /\ response' = Bare(Message(deleted_menssage("Veículo")))
    /\ UNCHANGED <<customers, spots, records, seq, now, instance, lastWrite,
                   vehicles_app>>

\* the endpoint looking the vehicle up among the rows of the caller
delete_vehicle_of_owner(user, id) ==
    has_permissions_decorator("delete_vehicle", user,
        Some(<<"vehicles.delete_vehicle">>),
        IF id \in Vehicle_for_owner(user)
        THEN delete_vehicle_func(id)
        ELSE /\ response' = NotFound("Veículo")
             /\ UNCHANGED <<store, seq, now, instance, lastWrite, vehicles_app>>)

delete_vehicle(user, id) ==
    has_permissions_decorator("delete_vehicle", user,
        Some(<<"vehicles.delete_vehicle">>), delete_vehicle_func(id))

LookupNames == {<<"a", "b">>, <<"A", "b">>}
CreateLookupPayloads == [name : {Set(Some(n)) : n \in LookupNames}]
PatchLookupPayloads == [name : Payload(Opt(LookupNames))]

\* bodies of POST /vehicles: the plate of the stored vehicle, and a new one
IntegrityCreatePayloads ==
    {CreateVehicleBody(Some(Plates[1]), None, None),
     CreateVehicleBody(Some(Plates[2]), None, None)}

\* bodies of PATCH /vehicles/{id}: a plate, a brand by name, and a brand by a new
\* name together with a plate
IntegrityVehiclePayloads ==
    {PatchVehicleBody([license_plate |-> Some(Plates[1])]),
     PatchVehicleBody([license_plate |-> Some(Plates[2])]),
     PatchVehicleBody([brand |-> Some(NameSpacedAb)]),
     PatchVehicleBody([brand |-> Some(StrValue(<<"c">>)),
                       license_plate |-> Some(Plates[1])])}

IntegritySpotPayloads ==
    {p \in PatchSpotPayloads : p.spot_number \notin {Unset, Set(None)}
                               /\ p.is_occupied = Unset}

IntegrityCallers == {"staff"}

\* one vehicle is stored
InitIntegrity ==
    /\ customers = EmptyTable
    /\ vehicles = Insert(EmptyTable, 1, VehicleRow(None, Some(Plates[1])))
    /\ spots = EmptyTable
    /\ records = EmptyTable
    /\ seq = [customer |-> 0, spot |-> 0, record |-> 0, vehicle |-> 1]
    /\ now = 0
    /\ instance = NoInstance
    /\ request = NoRequest
    /\ response = NoResponse
    /\ invoked = 0
    /\ lastWrite = EmptyTable
    /\ lookups = NoLookups
    /\ jobs = <<>>
    /\ procs = EmptyTable

NextIntegrity ==
    \/ \E user \in IntegrityCallers, payload \in IntegrityCreatePayloads :
          create_vehicle(user, payload, TRUE)
    \/ \E user \in IntegrityCallers, id \in VehicleIds,
          payload \in IntegrityVehiclePayloads : patch_vehicle(user, id, payload)
    \/ \E user \in IntegrityCallers, payload \in CreateSpotPayloads :
          create_spot(user, payload)
    \/ \E user \in IntegrityCallers, id \in SpotIds, payload \in IntegritySpotPayloads :
          patch_spot(user, id, payload)
    \/ \E user \in IntegrityCallers, payload \in CreateLookupPayloads :
          create_lookup(user, "brand", payload)
    \/ \E user \in IntegrityCallers, id \in 1..MaxBrands,
          payload \in PatchLookupPayloads : patch_lookup(user, "brand", id, payload)

SpecIntegrity == InitIntegrity /\ [][NextIntegrity]_vars

\* bodies of PATCH /vehicles/{id} that reference lookup rows by id
ProtectVehiclePayloads ==
    {PatchVehicleBody([brand |-> Some(IntValue(1))]),
     PatchVehicleBody([brand |-> Some(IntValue(2))]),
     PatchVehicleBody([vehicle_type |-> Some(IntValue(1))]),
     PatchVehicleBody([color |-> Some(IntValue(1)), model |-> Some(IntValue(1))])}

\* two vehicles that reference nothing, two brands and one row of each other
\* lookup model
InitProtect ==
    /\ customers = EmptyTable
    /\ vehicles = [i \in VehicleIds |-> VehicleRow(None, Some(Plates[i]))]
    /\ spots = EmptyTable
    /\ records = EmptyTable
    /\ seq = [customer |-> 0, spot |-> 0, record |-> 0, vehicle |-> MaxVehicles]
    /\ now = 0
    /\ instance = NoInstance
    /\ request = NoRequest
    /\ response = NoResponse
    /\ invoked = 0
    /\ lastWrite = EmptyTable
    /\ lookups = InitLookups
    /\ jobs = <<>>
    /\ procs = EmptyTable

NextProtect ==
    \/ \E user \in IntegrityCallers, id \in VehicleIds,
          payload \in ProtectVehiclePayloads : patch_vehicle(user, id, payload)
    \/ \E user \in IntegrityCallers, id \in VehicleIds : delete_vehicle(user, id)
    \/ \E user \in IntegrityCallers, model \in LookupModels, id \in {1, 2, 9} :
          delete_lookup(user, model, id)

SpecProtect == InitProtect /\ [][NextProtect]_vars

-----------------------------------------------------------------------------
(* The record writes on a storage layer that can refuse the save of the    *)
(* spot.  `failing` is the save of the spot that raises: 0 for none, 1 for *)
(* the first post_save of the request, 2 for the second.                   *)

\* a receiver that saves the spot again when the save raised
update_parking_spot_status_retrying(inst, table, fails) ==
    [raised |-> None, spots |-> update_parking_spot_status(inst, table)]

\* the receiver when parking_spot.save() raises or not: it has no try and
\* post_save is sent with send(), so the exception leaves the receiver
update_parking_spot_status_on_storage(inst, table, fails) ==
    IF fails
    THEN [raised |-> Some("DatabaseError"), spots |-> table]
    ELSE [raised |-> None, spots |-> update_parking_spot_status(inst, table)]

\* ParkingRecord.objects.create: the INSERT is committed, then post_save runs
create_record_on_storage_func(payload, failing) ==
    LET id == seq.record + 1
        row == dict(payload) @@ [entry_time |-> now, exit_time |-> None]
        saved == update_parking_spot_status_on_storage(row, spots, failing = 1)
    IN  /\ IF record_integrity(row)
           THEN /\ records' = Insert(records, id, row)
                /\ seq' = [seq EXCEPT !.record = id]
                /\ spots' = saved.spots
                /\ lastWrite' = IF saved.raised = None
                                THEN record_wrote(lastWrite, row.parking_spot_id[1], TRUE)
                                ELSE lastWrite
                /\ response' = IF saved.raised = None
                               THEN Resp(201, Entity("ParkingRecord", id))
                               ELSE InternalError
           ELSE /\ response' = InternalError
                /\ UNCHANGED <<records, seq, spots, lastWrite>>
        /\ UNCHANGED <<customers, vehicles, now, instance, vehicles_app>>

create_record_on_storage(user, payload, failing) ==
    /\ seq.record < MaxRecords
    /\ has_permissions_decorator("create_record", user,
           Some(<<"parking.add_parkingrecord">>),
           create_record_on_storage_func(payload, failing))

\* update_service saves the record (first post_save), then the view saves it
\* again (second post_save); an exception of the first leaves before the second
patch_record_on_storage_func(id, payload, failing) ==
    /\ IF id \notin DOMAIN records
       THEN /\ response' = NotFound("Registro")
            /\ UNCHANGED <<records, spots, lastWrite>>
       ELSE LET patched == update_service(Schema(payload), records[id])
                first == update_parking_spot_status_on_storage(patched, spots,
                                                               failing = 1)
                second == IF first.raised # None THEN first
                          ELSE update_parking_spot_status_on_storage(patched,
                                   first.spots, failing = 2)
            IN  IF record_integrity(patched)
                THEN /\ records' = Insert(records, id, patched)
                     /\ spots' = second.spots
                     /\ lastWrite' = IF first.raised = None
                                     THEN record_wrote(lastWrite,
                                              patched.parking_spot_id[1],
                                              patched.exit_time = None)
                                     ELSE lastWrite
                     /\ response' = IF second.raised = None
                                    THEN Resp(200, Entity("ParkingRecord", id))
                                    ELSE InternalError
                ELSE /\ response' = InternalError
                     /\ UNCHANGED <<records, spots, lastWrite>>
    /\ UNCHANGED <<customers, vehicles, seq, now, instance, vehicles_app>>

patch_record_on_storage(user, id, payload, failing) ==
    has_permissions_decorator("patch_record", user,
        Some(<<"parking.change_parkingrecord">>),
        patch_record_on_storage_func(id, payload, failing))

\* bodies of the record writes on stored vehicles and spots
StorageCreatePayloads ==
    [vehicle_id : {Set(Some(1))}, parking_spot_id : {Set(Some(i)) : i \in SpotIds}]

StoragePatchPayloads ==
    [exit_time : Payload(Opt({now})), vehicle_id : {Unset},
     parking_spot_id : {Unset} \cup {Set(Some(i)) : i \in SpotIds}]

NextStorage ==
    \/ \E user \in ParkingCallers, payload \in CreateSpotPayloads :
          create_spot(user, payload)
    \/ \E user \in ParkingCallers, payload \in StorageCreatePayloads,
          failing \in 0..1 : create_record_on_storage(user, payload, failing)
    \/ \E user \in ParkingCallers, id \in RecordIds, payload \in StoragePatchPayloads,
          failing \in 0..2 : patch_record_on_storage(user, id, payload, failing)

SpecStorage == InitParking /\ [][NextStorage]_vars

-----------------------------------------------------------------------------
(* create_record running next to patch_spot.  The request runs in          *)
(* autocommit: the INSERT of the record, the SELECT of the spot by the     *)
(* receiver and the UPDATE of the spot by parking_spot.save() are three    *)
(* statements, and another request can commit between them.  procs[1] is   *)
(* the create_record request in flight: its record, and the ParkingSpot    *)
(* instance the receiver holds.                                            *)

NoWrite == [pc |-> "idle", record |-> None, parking_spot |-> None]

\* ParkingRecord.objects.create: the INSERT; post_save is about to run
create_record_insert_func(payload) ==
    LET id == seq.record + 1
        row == dict(payload) @@ [entry_time |-> now, exit_time |-> None]
    IN  /\ procs[1].pc = "idle"
        /\ IF record_integrity(row)
           THEN /\ records' = Insert(records, id, row)
                /\ seq' = [seq EXCEPT !.record = id]
                /\ procs' = [procs EXCEPT ![1] = [NoWrite EXCEPT !.pc = "select",
                                                                !.record = Some(id)]]
                /\ UNCHANGED response
           ELSE /\ response' = InternalError
                /\ UNCHANGED <<records, seq, procs>>
        /\ UNCHANGED <<customers, vehicles, spots, now, instance, lastWrite, lookups,
                       jobs>>

create_record_insert(user, payload) ==
    /\ seq.record < MaxRecords
    /\ procs[1].pc = "idle"
    /\ has_permissions_decorator("create_record", user,
           Some(<<"parking.add_parkingrecord">>), create_record_insert_func(payload))

\* parking_spot = instance.parking_spot: the SELECT of the row
update_parking_spot_status_select ==
    /\ procs[1].pc = "select"
    /\ procs' = [procs EXCEPT ![1].pc = "save",
                              ![1].parking_spot =
                                  Some(spots[records[procs[1].record[1]].parking_spot_id[1]])]
    /\ UNCHANGED <<store, seq, now, instance, request, response, invoked, lastWrite,
                   lookups, jobs>>

\* parking_spot.is_occupied = ...; parking_spot.save(): the UPDATE writes every
\* column of the instance; then create returns and the view answers 201
update_parking_spot_status_save ==
    LET id == procs[1].record[1]
        inst == records[id]
        parking_spot == [procs[1].parking_spot[1] EXCEPT
                            !.is_occupied = Some(inst.exit_time = None)]
    IN  /\ procs[1].pc = "save"
        /\ spots' = Insert(spots, inst.parking_spot_id[1], auto_now(parking_spot))
        /\ lastWrite' = record_wrote(lastWrite, inst.parking_spot_id[1], TRUE)
        /\ response' = Resp(201, Entity("ParkingRecord", id))
        /\ procs' = [procs EXCEPT ![1] = NoWrite]
        /\ UNCHANGED <<customers, vehicles, records, seq, now, instance, request,
                       invoked, lookups, jobs>>

\* patch_spot of another request, between two statements of create_record or not
patch_spot_concurrently(user, id, payload) ==
    /\ patch_spot(user, id, payload)

InitSpotRace ==
    /\ customers = EmptyTable
    /\ vehicles = Insert(EmptyTable, 1,
                         VehicleRow(auth_user["alice"].pk, Some(<<"A", "B", "1">>)))
    /\ spots = EmptyTable
    /\ records = EmptyTable
    /\ seq = [customer |-> 0, spot |-> 0, record |-> 0, vehicle |-> 1]
    /\ now = 0
    /\ instance = NoInstance
    /\ request = NoRequest
    /\ response = NoResponse
    /\ invoked = 0
    /\ lastWrite = EmptyTable
    /\ lookups = NoLookups
    /\ jobs = <<>>
    /\ procs = [p \in {1} |-> NoWrite]

NextSpotRace ==
    \/ \E user \in ParkingCallers, payload \in CreateSpotPayloads :
          create_spot(user, payload)
    \/ \E user \in ParkingCallers, payload \in StorageCreatePayloads :
          create_record_insert(user, payload)
    \/ update_parking_spot_status_select
    \/ update_parking_spot_status_save
    \/ \E user \in ParkingCallers, id \in SpotIds, payload \in PatchSpotPayloads :
          patch_spot_concurrently(user, id, payload)

SpecSpotRace == InitSpotRace /\ [][NextSpotRace]_vars

-----------------------------------------------------------------------------
(* The write endpoints on rows of other owners.  bob and alice are not     *)
(* internal: bob holds the view permissions only, alice holds every        *)
(* permission.  Every request addresses a row that exists.                  *)

WriteCallers == {"bob", "alice", "staff"}

WriteRecordPayloads ==
    {[exit_time |-> Unset, vehicle_id |-> Unset, parking_spot_id |-> Unset],
     [exit_time |-> Set(Some(0)), vehicle_id |-> Unset, parking_spot_id |-> Unset],
     [exit_time |-> Unset, vehicle_id |-> Set(Some(2)), parking_spot_id |-> Unset]}

WriteVehiclePayloads ==
    {PatchVehicleBody(EmptyTable),
     PatchVehicleBody([license_plate |-> Some(Plates[3])]),
     PatchVehicleBody([brand |-> Some(NameAb)])}

\* vehicle 1 of bob with record 1, vehicle 2 of alice with record 2, on one spot
InitWrites ==
    /\ customers = EmptyTable
    /\ vehicles = [i \in VehicleIds |->
                      VehicleRow(IF i = 1 THEN auth_user["bob"].pk
                                 ELSE auth_user["alice"].pk, Some(Plates[i]))]
    /\ spots = Insert(EmptyTable, 1,
                      [spot_number |-> Some(<<"A", "1">>), is_occupied |-> Some(TRUE),
                       created_at |-> 0, updated_at |-> 0])
    /\ records = [i \in RecordIds |->
                     [vehicle_id |-> Some(i), parking_spot_id |-> Some(1),
                      entry_time |-> 0,
                      exit_time |-> IF i = MaxRecords THEN None ELSE Some(0)]]
    /\ seq = [customer |-> 0, spot |-> 1, record |-> MaxRecords, vehicle |-> MaxVehicles]
    /\ now = 0
    /\ instance = NoInstance
    /\ request = NoRequest
    /\ response = NoResponse
    /\ invoked = 0
    /\ lastWrite = EmptyTable
    /\ lookups = NoLookups
    /\ jobs = <<>>
    /\ procs = EmptyTable

NextWrites ==
    \/ \E user \in WriteCallers, id \in DOMAIN records, payload \in WriteRecordPayloads :
          patch_record(user, id, payload)
    \/ \E user \in WriteCallers, id \in DOMAIN records : delete_record(user, id)
    \/ \E user \in WriteCallers, id \in DOMAIN vehicles, payload \in WriteVehiclePayloads :
          patch_vehicle(user, id, payload)
    \/ \E user \in WriteCallers, id \in DOMAIN vehicles : delete_vehicle(user, id)

SpecWrites == InitWrites /\ [][NextWrites]_vars

-----------------------------------------------------------------------------
(* The permission gate: properties of SpecGate.                            *)

HoldsEvery(user, perm_list) ==
    \A i \in 1..Len(perm_list) : has_perm(user, perm_list[i])

\* C5: for a permission list P and a user U the gate lets the call through
\* if and only if U is staff or superuser, or U holds every permission in P.
C5_GateGrantsIffInternalOrHoldsAll ==
    (request.op = "view" /\ request.user # NoUser /\ request.permissions # None) =>
        ((invoked = 1 /\ response # Forbidden) <=>
            (\/ auth_user[request.user].is_staff
             \/ auth_user[request.user].is_superuser
             \/ HoldsEvery(request.user, request.permissions[1])))

\* a user who is not internal went through a gate of two permissions it holds
C5_Witness ==
    /\ request.op = "view"
    /\ request.user = "bob"
    /\ request.permissions = Some(<<"auth.add_user", "auth.change_user">>)
    /\ invoked = 1

\* C6: an anonymous caller, and a request without a user attribute, is denied
\* for every declared permission set, the empty list and the absent set included.
C6_AnonymousAlwaysDenied ==
    (request.op = "view" /\ request.user \in {"anon", NoUser}) =>
        (invoked = 0 /\ response = Forbidden)

\* C7: with no permissions declared (absent, or an empty list) the gate lets the
\* call through if and only if the user is staff or superuser.
C7_NoPermissionsInternalOnly ==
    (/\ request.op = "view"
     /\ request.user # NoUser
     /\ request.permissions \in {None, Some(<<>>)}) =>
        (invoked = 1 <=> is_internal_user(request.user))

-----------------------------------------------------------------------------
(* The decorator around the customer endpoints: properties of              *)
(* SpecCustomers.                                                          *)

\* the step is the undecorated body of the view the request names
CustomerFuncStep ==
    \/ /\ request'.op = "create_customer"
       /\ \E payload \in CreateCustomerPayloads : create_customer_func(payload)
    \/ /\ request'.op = "delete_customer"
       /\ \E id \in CustomerIds : delete_customer_func(id)
    \/ /\ request'.op = "get_customers"
       /\ \E filters \in FilterCustomers : get_customers_func(filters)
    \/ /\ request'.op = "get_customer"
       /\ \E id \in CustomerIds : get_customer_func(id)
    \/ /\ request'.op = "patch_customer"
       /\ \E id \in CustomerIds, payload \in PatchCustomerPayloads :
             patch_customer_func(id, payload)

C8_Step ==
    \/ Tick
    \/ /\ request'.user # NoUser
       /\ has_permissions(request'.user, request'.permissions)
       /\ invoked' = 1
       /\ CustomerFuncStep
    \/ /\ request'.user = NoUser \/ ~has_permissions(request'.user, request'.permissions)
       /\ invoked' = 0
       /\ response' = Forbidden
       /\ UNCHANGED <<store, seq>>

\* C8: when the gate grants access the decorated view runs once and its result is
\* what the caller gets; when it denies, the view does not run, the store is
\* unchanged and the caller gets (403, unauthorized message).
C8_DecoratorPassThroughOrForbidden == [][C8_Step]_vars

\* a caller was refused the deletion of a stored customer, which is still stored
C8_Witness ==
    /\ request.op = "delete_customer"
    /\ request.user = "anon"
    /\ response = Forbidden
    /\ invoked = 0
    /\ customers # EmptyTable

-----------------------------------------------------------------------------
(* The field patcher: properties of SpecPatch.                             *)

\* the body carried field f / the value it carried
Carries(data, f) ==
    IF data.kind = "dict" THEN f \in DOMAIN data.items
    ELSE f \in DOMAIN data.fields /\ data.fields[f] # Unset

Carried(data, f) ==
    IF data.kind = "dict" THEN data.items[f] ELSE data.fields[f][1]

C9_Step ==
    \A data \in PatchData, save \in BOOLEAN :
        call_update_service(data, save) =>
            /\ \A f \in DOMAIN instance'.fields \ {"updated_at"} :
                  IF Carries(data, f)
                  THEN instance'.fields[f] = Carried(data, f)
                  ELSE f \in DOMAIN instance.fields
                       /\ instance'.fields[f] = instance.fields[f]
            /\ DOMAIN instance.fields \subseteq DOMAIN instance'.fields

-----------------------------------------------------------------------------
(* The occupancy reconciler: properties of SpecParking.                    *)

\* the step is a create_record or patch_record that wrote record `id`
RecordWritten(id) ==
    /\ request'.op \in {"create_record", "patch_record"}
    /\ response' \in {Resp(201, Entity("ParkingRecord", id)),
                      Resp(200, Entity("ParkingRecord", id))}

\* the spot the written record references, after the write
WrittenSpot(id) == records'[id].parking_spot_id[1]

C1_Step ==
    \A id \in RecordIds :
        RecordWritten(id) =>
            /\ id \in DOMAIN records'
            /\ WrittenSpot(id) \in DOMAIN spots'
            /\ spots'[WrittenSpot(id)].is_occupied = Some(records'[id].exit_time = None)

\* C1: after every committed ParkingRecord write (create_record, or patch_record
\* of any field) the spot the written record references has
\* is_occupied = (the record's exit_time is null).
C1_WriteSetsSpotFromRecord == [][C1_Step]_vars

\* a record was patched with an exit time and its spot, occupied since the
\* record was created, is free again
C1_Witness ==
    /\ request.op = "patch_record"
    /\ \E id \in DOMAIN records :
          /\ response = Resp(200, Entity("ParkingRecord", id))
          /\ records[id].exit_time # None
          /\ spots[records[id].parking_spot_id[1]].is_occupied = Some(FALSE)

\* the records linked to spot s that have no exit time
open_records(s) ==
    {r \in DOMAIN records :
        records[r].parking_spot_id = Some(s) /\ records[r].exit_time = None}

\* C2: every spot is occupied if and only if at least one record linked to it
\* has a null exit_time.
C2_OccupiedIffOpenRecord ==
    \A s \in DOMAIN spots : spots[s].is_occupied = Some(open_records(s) # {})

\* C3 as stated: a spot some record write referenced has is_occupied equal to
\* (exit_time is null) of the record most recently written with it, whatever
\* create_record, patch_record, delete_record and patch_spot calls were made.
C3_FlagIsLastRecordWrite ==
    \A s \in DOMAIN spots \cap DOMAIN lastWrite :
        spots[s].is_occupied = Some(lastWrite[s])

\* the step is a patch_spot of s that saved a payload carrying is_occupied
SpotFlagPatched(s, payload) ==
    /\ request'.op = "patch_spot"
    /\ invoked' = 1
    /\ payload.is_occupied # Unset
    /\ patch_spot_func(s, payload)
    /\ response' = Resp(200, Entity("ParkingSpot", s))

\* the step is a record write whose record references spot s
SpotReconciled(s, id) ==
    /\ RecordWritten(id)
    /\ records'[id].parking_spot_id = Some(s)

C3_Step ==
    \A s \in DOMAIN spots \cap DOMAIN spots' :
        IF \E id \in RecordIds : SpotReconciled(s, id)
        THEN \A id \in RecordIds :
                SpotReconciled(s, id) =>
                    spots'[s].is_occupied = Some(records'[id].exit_time = None)
        ELSE IF \E payload \in PatchSpotPayloads : SpotFlagPatched(s, payload)
        THEN \A payload \in PatchSpotPayloads :
                SpotFlagPatched(s, payload) =>
                    spots'[s].is_occupied = payload.is_occupied[1]
        ELSE spots'[s].is_occupied = spots[s].is_occupied

\* C3 amended: a spot's is_occupied is the value most recently assigned to it,
\* either by a ParkingRecord write with that spot as its parking_spot, which
\* assigns (exit_time is null) of the written record, or by a patch_spot whose
\* payload carries is_occupied, which assigns the carried value; no other
\* record and no other operation (delete_record, a patch_spot that does not
\* carry is_occupied, a refused or failed call) changes the flag.
C3_FlagIsLastAssignment == [][C3_Step]_vars

\* a patch_spot freed a spot whose most recently written record is still open
C3_Witness ==
    /\ request.op = "patch_spot"
    /\ \E s \in DOMAIN spots \cap DOMAIN lastWrite :
          /\ response = Resp(200, Entity("ParkingSpot", s))
          /\ lastWrite[s]
          /\ spots[s].is_occupied = Some(FALSE)

\* a patch body that sets no field
EmptyPatchSpot == [spot_number |-> Unset, is_occupied |-> Unset]
EmptyPatchRecord == [exit_time |-> Unset, vehicle_id |-> Unset, parking_spot_id |-> Unset]

C10_Step ==
    /\ \A id \in SpotIds :
          (/\ request'.op = "patch_spot"
           /\ invoked' = 1
           /\ patch_spot_func(id, EmptyPatchSpot)) => store' = store
    /\ \A id \in RecordIds :
          (/\ request'.op = "patch_record"
           /\ invoked' = 1
           /\ patch_record_func(id, EmptyPatchRecord)) => store' = store

\* C10: a patch with an empty partial payload leaves every stored field of the
\* patched entity, and of every other entity, unchanged.
C10_EmptyPatchChangesNothing == [][C10_Step]_vars

-----------------------------------------------------------------------------
(* The ownership filter: properties of SpecOwner.                          *)

\* U is staff or superuser
StaffOrSuperuser(user) == auth_user[user].is_staff \/ auth_user[user].is_superuser

\* the vehicles whose owner is U, and the rows U is to see
OwnedBy(user) ==
    {v \in DOMAIN vehicles :
        vehicles[v].owner_id # None /\ vehicles[v].owner_id = auth_user[user].pk}

VisibleVehicles(user) ==
    IF StaffOrSuperuser(user) THEN DOMAIN vehicles ELSE OwnedBy(user)

VisibleRecords(user) ==
    IF StaffOrSuperuser(user) THEN DOMAIN records
    ELSE {r \in DOMAIN records : records[r].vehicle_id[1] \in OwnedBy(user)}

NoFilterVehicles ==
    [license_plate |-> None, vehicle_type |-> None, brand |-> None,
     model |-> None, color |-> None]

NoFilterRecords ==
    [license_plate |-> None, spot_number |-> None, entry_time |-> None,
     exit_time |-> None]

\* the step ran the body of a read endpoint: what it answered
C4_Reads ==
    LET user == request'.user
    IN  /\ store' = store
        /\ request'.op = "get_vehicles" =>
              \A filters \in FilterVehicles :
                  get_vehicles_func(user, filters) =>
                      /\ response'.status = Some(200)
                      /\ response'.body.ids \subseteq VisibleVehicles(user)
                      /\ filters = NoFilterVehicles =>
                            response'.body.ids = VisibleVehicles(user)
        /\ request'.op = "get_vehicle" =>
              \A id \in VehicleIds \cup {9} :
                  get_vehicle_func(user, id) =>
                      response' = IF id \in VisibleVehicles(user)
                                  THEN Resp(200, Entity("Vehicle", id))
                                  ELSE NotFound("Veículo")
        /\ request'.op = "get_records" =>
              \A filters \in FilterRecords :
                  get_records_func(user, filters) =>
                      /\ response'.status = Some(200)
                      /\ response'.body.ids \subseteq VisibleRecords(user)
                      /\ filters = NoFilterRecords =>
                            response'.body.ids = VisibleRecords(user)
        /\ request'.op = "get_record" =>
              \A id \in RecordIds \cup {9} :
                  get_record_func(user, id) =>
                      response' = IF id \in VisibleRecords(user)
                                  THEN Resp(200, Entity("ParkingRecord", id))
                                  ELSE NotFound("Registro")

C4_Step ==
    /\ \A user \in StoredUsers :
          /\ Vehicle_for_owner(user) = VisibleVehicles(user)
          /\ ParkingRecord_for_owner(user) = VisibleRecords(user)
          /\ ~StaffOrSuperuser(user) =>
                /\ \A v \in Vehicle_for_owner(user) : vehicles[v].owner_id # None
                /\ \A r \in ParkingRecord_for_owner(user) :
                      vehicles[records[r].vehicle_id[1]].owner_id # None
    /\ invoked' = 1 => C4_Reads

\* C4: for_owner(U) over vehicles and over parking records is the whole
\* collection when U is staff or superuser and otherwise exactly the rows whose
\* vehicle's owner is U, so a vehicle with no owner and its records are in no
\* other user's result; the read endpoints answer from that set and change no
\* stored row.
C4_ForOwnerIsOwnRowsOrAll == [][C4_Step]_vars

\* bob listed the vehicles without a filter and got his own and nothing else,
\* while a vehicle with no owner is stored
C4_Witness ==
    /\ request.op = "get_vehicles"
    /\ request.user = "bob"
    /\ response.status = Some(200)
    /\ response.body.ids # {}
    /\ response.body.ids = OwnedBy("bob")
    /\ \E v \in DOMAIN vehicles : vehicles[v].owner_id = None

-----------------------------------------------------------------------------
(* Persistence of the field patcher: properties of SpecPatch.              *)

C11_Step ==
    \A data \in PatchData, save \in BOOLEAN :
        call_update_service(data, save) =>
            /\ \A f \in DOMAIN instance'.fields \ {"updated_at"} :
                  Carries(data, f) => instance'.fields[f] = Carried(data, f)
            /\ IF save /\ response' # Raised("IntegrityError")
               THEN /\ customers'[instance.id] = columns(instance'.fields)
                    /\ \A f \in CustomerFields \ {"updated_at"} :
                          Carries(data, f) =>
                              customers'[instance.id][f] = Carried(data, f)
               ELSE customers' = customers

\* C11: update_service with save=True applies the payload to the instance and
\* persists it, so the stored row read again shows the new values; with
\* save=False only the in-memory instance changes and the stored row keeps its
\* previous values (as it does when the save raises).
C11_SaveFlagDecidesPersistence == [][C11_Step]_vars

\* after a call with save=False the instance has the new name and the stored
\* row still the old one
C11_Witness ==
    /\ request.op = "update_service"
    /\ instance.fields.name = Some(<<"B", "o">>)
    /\ customers[instance.id].name = Some(<<"A", "n", "a">>)

-----------------------------------------------------------------------------
(* The relationship resolver and update_vehicle: properties of             *)
(* SpecResolver.                                                           *)

\* the step ran the body of patch_vehicle on the stored vehicle id with payload
VehiclePatched(id, payload) ==
    /\ request'.op = "patch_vehicle"
    /\ invoked' = 1
    /\ id \in DOMAIN vehicles
    /\ patch_vehicle_func(id, payload)

C12_Step ==
    \A id \in VehicleIds, payload \in PatchVehiclePayloads :
        VehiclePatched(id, payload) =>
            LET out == update_vehicle_body(payload, id)
            IN  IF out.raised # None
                THEN /\ vehicles' = vehicles
                     /\ lookups' = lookups
                     /\ response' = InternalError
                ELSE /\ vehicles' = Insert(vehicles, id, out.vehicle)
                     /\ lookups' = out.lookups
                     /\ response' = Resp(200, Entity("Vehicle", id))

\* C12: the relationship resolutions of one update_vehicle call, the field
\* patch and the save are all-or-nothing: when a resolution or the save fails,
\* no Vehicle field and no lookup row of that call is persisted, not even a row
\* an earlier find-or-create of the call had created.
C12_UpdateVehicleAllOrNothing == [][C12_Step]_vars

\* a patch ended in an error and the table of vehicle types, which every
\* failing body with a vehicle_type name had added a row to, is still empty
C12_Witness ==
    /\ request.op = "patch_vehicle"
    /\ invoked = 1
    /\ response = InternalError
    /\ lookups["vehicle_type"] = EmptyTable
    /\ lookups["color"] = EmptyTable

\* the rows of a lookup table stored under the name
named(table, name) == {i \in DOMAIN table : table[i].name = Some(name)}

\* the names a body resolves
ResolvedNames == {<<"A", "b">>, <<" ", "a", "B", " ">>, <<"a", "b">>, <<"!">>}

\* the resolver applied to the stored tables: twice in a row
C13_Resolutions ==
    \A field \in LookupModels, t1 \in ResolvedNames, t2 \in ResolvedNames :
        LET first == resolve_relationship(lookups[field], Some(StrValue(t1)))
            again == resolve_relationship(first.table, Some(StrValue(t2)))
        IN  /\ first.raised = None
            /\ Cardinality(named(first.table, normalize(t1))) = 1
            /\ first.pk \in {Some(i) : i \in named(first.table, normalize(t1))}
            /\ Cardinality(DOMAIN first.table) =
                  Cardinality(DOMAIN lookups[field])
                  + (IF named(lookups[field], normalize(t1)) = {} THEN 1 ELSE 0)
            /\ normalize(t1) = normalize(t2) =>
                  again.pk = first.pk /\ again.table = first.table

\* the relationships the body gives as a str
str_fields(payload) ==
    {field \in LookupModels :
        /\ payload[field] # Unset
        /\ payload[field] # Set(None)
        /\ ~IsInt(payload[field][1][1])}

C13_Step ==
    \A id \in VehicleIds, payload \in PatchVehiclePayloads :
        (VehiclePatched(id, payload) /\ response' = Resp(200, Entity("Vehicle", id))) =>
            \A field \in str_fields(payload) :
                LET name == normalize(payload[field][1][1].str)
                IN  /\ Cardinality(named(lookups'[field], name)) = 1
                    /\ vehicles'[id][attname(field)] \in
                          {Some(i) : i \in named(lookups'[field], name)}
                    /\ named(lookups[field], name) # {} => lookups'[field] = lookups[field]
                    /\ \A i \in DOMAIN lookups[field] :
                          /\ i \in DOMAIN lookups'[field]
                          /\ lookups'[field][i] = lookups[field][i]

\* C13: resolving a relationship by a free-text name finds or creates the
\* lookup row by the normalised name: the first resolution of a name with no
\* matching row creates exactly one row, and every later resolution of a
\* string with the same normalised form reuses that row and creates none.
C13_FindOrCreateByNormalizedName == []C13_Resolutions /\ [][C13_Step]_vars

\* both vehicles were given their brand by name and share the one row "ab"
C13_Witness ==
    /\ request.op = "patch_vehicle"
    /\ response.status = Some(200)
    /\ Cardinality(named(lookups["brand"], <<"a", "b">>)) = 1
    /\ vehicles[1].brand_id # None
    /\ vehicles[1].brand_id = vehicles[2].brand_id
    /\ lookups["brand"][vehicles[1].brand_id[1]].name = Some(<<"a", "b">>)

\* the relationships the body gives as an int
int_fields(payload) ==
    {field \in LookupModels :
        /\ payload[field] # Unset
        /\ payload[field] # Set(None)
        /\ IsInt(payload[field][1][1])}

C15_Step ==
    \A id \in VehicleIds, payload \in PatchVehiclePayloads :
        VehiclePatched(id, payload) =>
            IF \E field \in int_fields(payload) :
                  payload[field][1][1].int \notin DOMAIN lookups[field]
            THEN /\ update_vehicle_body(payload, id).raised = Some("DoesNotExist")
                 /\ update_vehicle(payload, id).raised = Some("DoesNotExist")
                 /\ vehicles' = vehicles
                 /\ lookups' = lookups
            ELSE response' = Resp(200, Entity("Vehicle", id)) =>
                    \A field \in int_fields(payload) :
                        vehicles'[id][attname(field)] = Some(payload[field][1][1].int)

\* C15: resolving a relationship by an integer sets the Vehicle field to the
\* lookup row with that primary key; when no such row exists the resolution
\* fails with the model's DoesNotExist and the stored Vehicle is unchanged.
C15_IntResolvesByPkOrNotFound == [][C15_Step]_vars

\* a vehicle was given, by id, the brand that was stored before under a name
\* that is not normalised
C15_Witness ==
    /\ request.op = "patch_vehicle"
    /\ response.status = Some(200)
    /\ \E v \in DOMAIN vehicles :
          /\ vehicles[v].brand_id = Some(1)
          /\ lookups["brand"][1].name = Some(<<"A", "b">>)

C16_Step ==
    \A id \in VehicleIds, payload \in PatchVehiclePayloads :
        VehiclePatched(id, payload) =>
            \A field \in {f \in LookupModels : payload[f] \in {Unset, Set(None)}} :
                /\ vehicles'[id][attname(field)] = vehicles[id][attname(field)]
                /\ update_vehicle_body(payload, id).vehicle[attname(field)] =
                      vehicles[id][attname(field)]

\* C16: a brand/model/color/type value that is null or absent from the payload
\* leaves the Vehicle's value of that field untouched: an explicit null does
\* not clear the relationship.
C16_NullOrAbsentLeavesRelationship == [][C16_Step]_vars

\* a patch went through on a vehicle that has a brand and no vehicle type
C16_Witness ==
    /\ request.op = "patch_vehicle"
    /\ response.status = Some(200)
    /\ \E v \in DOMAIN vehicles :
          /\ response.body = Entity("Vehicle", v)
          /\ vehicles[v].brand_id # None
          /\ vehicles[v].vehicle_type_id = None
          /\ vehicles[v].color_id # None

-----------------------------------------------------------------------------
(* The enrichment job: properties of SpecEnrich.                           *)

\* the vehicles a step created
CreatedBy == DOMAIN vehicles' \ DOMAIN vehicles

MissingFields(row) == row.brand_id = None \/ row.color_id = None \/ row.model_id = None

\* the step published nothing: the queue kept its jobs or a worker took one
NothingEnqueued ==
    \/ jobs' = jobs
    \/ \E i \in DOMAIN jobs :
          jobs' = [k \in 1..(Len(jobs) - 1) |-> IF k < i THEN jobs[k] ELSE jobs[k + 1]]

\* C17: the enrichment job is published, keyed by the license plate, exactly by
\* the steps that create a vehicle with brand, model or color missing (when the
\* broker refuses the message the creation ends in the internal error and the
\* queue is as it was); a step that creates a vehicle with all three set, or that
\* updates a vehicle, publishes nothing.
C17_Step ==
    /\ \A id \in CreatedBy :
          IF MissingFields(vehicles'[id])
          THEN \/ jobs' = Append(jobs, vehicles'[id].license_plate)
               \/ jobs' = jobs /\ response' = InternalError
                              /\ request'.op = "create_vehicle"
          ELSE jobs' = jobs
    /\ CreatedBy = {} => NothingEnqueued

C17_EnqueuedExactlyOnCreationWithMissingField == [][C17_Step]_vars

\* vehicle 1 was created with brand, model and color set and no job was published
\* for it; vehicle 2 was created without them and its plate is the one job queued
C17_Witness ==
    /\ DOMAIN vehicles = {1, 2}
    /\ ~MissingFields(vehicles[1]) /\ vehicles[1].brand_id = Some(2)
    /\ MissingFields(vehicles[2])
    /\ jobs = <<vehicles[2].license_plate>>
    /\ request.op = "patch_vehicle" /\ response.status = Some(200)

\* C18: the outcome of create_vehicle does not depend on the enrichment: whether
\* or not the broker takes the message, the call answers what it answers when
\* the message is taken, it stores the same vehicles, and the stored vehicle is
\* the one the request gave (no job ran before the answer).
C18_Step ==
    \A payload \in CreateVehiclePayloads, broker \in BOOLEAN :
        (request'.op = "create_vehicle" /\ invoked' = 1
            /\ create_vehicle_func(payload, broker)) =>
        LET published == Vehicle_objects_create(payload, NewVehicle(payload), TRUE)
        IN  /\ vehicles' = published.vehicles
            /\ response' = IF published.raised = None
                           THEN Resp(201, Entity("Vehicle", seq.vehicle + 1))
                           ELSE InternalError

C18_CreationIndependentOfEnrichment == [][C18_Step]_vars

\* C19: a run of the enrichment job for the plate p keeps every vehicle whose
\* plate is not p as it was, creates and deletes no vehicle, writes nothing
\* unless the page gave a brand, a model and a color that are all non-empty, and
\* a second run on the same page leaves the vehicles as the first run left them.
C19_Step ==
    \A i \in DOMAIN jobs, page \in Pages :
        worker(i, page) =>
            /\ DOMAIN vehicles' = DOMAIN vehicles
            /\ \A id \in DOMAIN vehicles :
                  vehicles[id].license_plate # jobs[i] => vehicles'[id] = vehicles[id]
            /\ ~all_found(page) => vehicles' = vehicles
            /\ complete_vehicle_data(jobs[i], page, vehicles', lookups').vehicles
                  = vehicles'

C19_JobWritesOnlyItsPlateIdempotently == [][C19_Step]_vars

\* the job of vehicle 1 ran and wrote its three columns; vehicle 2, of another
\* plate, still misses them and its job is queued
C19_Witness ==
    /\ DOMAIN vehicles = {1, 2}
    /\ vehicles[1].brand_id = Some(1) /\ vehicles[1].model_id = Some(1)
    /\ vehicles[1].color_id = Some(1)
    /\ vehicles[2].brand_id = None /\ vehicles[2].model_id = None
    /\ vehicles[2].color_id = None
    /\ vehicles[1].license_plate # vehicles[2].license_plate
    /\ jobs = <<vehicles[2].license_plate>>
-----------------------------------------------------------------------------
(* Concurrent resolution of one name: properties of SpecRace.              *)

\* C14: whatever the interleaving of the update_vehicle calls, no two stored
\* brands carry the same name, and no call holds an uncommitted brand whose name
\* a stored brand or the uncommitted brand of another call carries.
C14_AtMostOneRowPerName ==
    /\ \A i, j \in DOMAIN lookups["brand"] :
          lookups["brand"][i].name = lookups["brand"][j].name => i = j
    /\ \A p \in DOMAIN procs :
          procs[p].pending # None =>
              /\ Some(procs[p].name) \notin names_of(lookups["brand"], DOMAIN lookups["brand"])
              /\ Some(procs[p].name) \notin pending_names(p)

\* two calls gave names that normalise to "ab" and both missed it; one inserted
\* and committed the brand, the other was refused by the constraint, read the
\* committed row and resolved to the same brand
C14_Witness ==
    /\ \E i \in DOMAIN lookups["brand"] :
          /\ lookups["brand"][i].name = Some(<<"a", "b">>)
          /\ vehicles[1].brand_id = Some(i)
          /\ procs[2].pc = "save" /\ procs[2].pk = Some(i)
          /\ procs[2].pending = None /\ procs[2].caught = Some("IntegrityError")
    /\ procs[2].name = <<"a", "b">>
    /\ Cardinality(DOMAIN lookups["brand"]) = 1
-----------------------------------------------------------------------------
(* The outcomes of an endpoint: properties of SpecResolver.                *)

\* the body references, by primary key, a lookup row that is not stored
ReferencesAbsent(payload) ==
    \E field \in int_fields(payload) :
        payload[field][1][1].int \notin DOMAIN lookups[field]

\* C20: PATCH /vehicles/{id} ends in success 200, forbidden 403, not-found 404
\* or internal-error 500; it ends in not-found when, and only when, the vehicle
\* it addresses or a lookup row its body references by id is absent; and a
\* request that ends in not-found leaves the store as it was.
C20_Step ==
    /\ request'.op = "patch_vehicle" /\ request' # request =>
          response'.status \in {Some(200), Some(403), Some(404), Some(500)}
    /\ \A id \in VehicleIds \cup {9}, payload \in PatchVehiclePayloads :
          (request'.op = "patch_vehicle" /\ invoked' = 1
              /\ patch_vehicle_func(id, payload)) =>
              /\ response'.status = Some(404) <=>
                    (id \notin DOMAIN vehicles \/ ReferencesAbsent(payload))
              /\ response'.status = Some(404) =>
                    vehicles' = vehicles /\ lookups' = lookups

C20_NotFoundIffAddressedOrReferencedIdAbsent == [][C20_Step]_vars
-----------------------------------------------------------------------------
(* Uniqueness: properties of SpecIntegrity.                                *)

\* no two rows of the table carry the same value in the column
UniqueColumn(table, column) ==
    \A i, j \in DOMAIN table : table[i][column] = table[j][column] => i = j

C21_Unique ==
    /\ UniqueColumn(vehicles, "license_plate")
    /\ UniqueColumn(spots, "spot_number")
    /\ \A model \in LookupModels : UniqueColumn(lookups[model], "name")

\* a row of the table other than `id` carries the value in the column
Taken(table, id, column, value) ==
    \E j \in DOMAIN table \ {id} : table[j][column] = value

\* the call ended in the internal error and wrote nothing
C21_Refused ==
    /\ response' = InternalError
    /\ vehicles' = vehicles /\ spots' = spots /\ lookups' = lookups

C21_Step ==
    /\ request'.op = "create_vehicle" /\ invoked' = 1 =>
          \A payload \in IntegrityCreatePayloads :
              (create_vehicle_func(payload, TRUE)
                  /\ Taken(vehicles, 0, "license_plate", payload.license_plate))
              => C21_Refused
    /\ request'.op = "patch_vehicle" /\ invoked' = 1 =>
          \A id \in DOMAIN vehicles, payload \in IntegrityVehiclePayloads :
              (patch_vehicle_func(id, payload)
                  /\ payload.license_plate # Unset
                  /\ Taken(vehicles, id, "license_plate", payload.license_plate[1]))
              => C21_Refused
    /\ request'.op = "create_spot" /\ invoked' = 1 =>
          \A payload \in CreateSpotPayloads :
              (create_spot_func(payload)
                  /\ Taken(spots, 0, "spot_number", payload.spot_number[1]))
              => C21_Refused
    /\ request'.op = "patch_spot" /\ invoked' = 1 =>
          \A id \in DOMAIN spots, payload \in IntegritySpotPayloads :
              (patch_spot_func(id, payload)
                  /\ Taken(spots, id, "spot_number", payload.spot_number[1]))
              => C21_Refused
    /\ request'.op = "create_lookup" /\ invoked' = 1 =>
          \A payload \in CreateLookupPayloads :
              (create_lookup_func("brand", payload)
                  /\ Taken(lookups["brand"], 0, "name", payload.name[1]))
              => C21_Refused
    /\ request'.op = "patch_lookup" /\ invoked' = 1 =>
          \A id \in DOMAIN lookups["brand"], payload \in PatchLookupPayloads :
              (patch_lookup_func("brand", id, payload)
                  /\ payload.name # Unset
                  /\ Taken(lookups["brand"], id, "name", payload.name[1]))
              => C21_Refused

\* C21: in every reachable state no two vehicles share a license plate, no two
\* spots a spot_number and no two rows of a lookup table a name; and a create or
\* a patch that asks for a value another row carries ends in the internal error
\* and leaves vehicles, spots and lookups as they were.
C21_UniqueColumnsAndRefusedDuplicates == []C21_Unique /\ [][C21_Step]_vars

\* two vehicles, two spots and two brands are stored and a patch_vehicle that
\* asked for the plate of the other vehicle was refused
C21_Witness ==
    /\ Cardinality(DOMAIN vehicles) = 2
    /\ Cardinality(DOMAIN spots) = 2
    /\ Cardinality(DOMAIN lookups["brand"]) = 2
    /\ request.op = "patch_vehicle"
    /\ response = InternalError
-----------------------------------------------------------------------------
(* Referential protection of the lookup rows: properties of SpecProtect.   *)

\* every relationship of a stored vehicle is a stored lookup row
C22_Referenced ==
    \A v \in DOMAIN vehicles, model \in LookupModels :
        vehicles[v][attname(model)] # None =>
            vehicles[v][attname(model)][1] \in DOMAIN lookups[model]

C22_Step ==
    request'.op = "delete_lookup" /\ invoked' = 1 =>
        \A model \in LookupModels : \A id \in DOMAIN lookups[model] :
            delete_lookup_func(model, id) =>
                /\ vehicles' = vehicles
                /\ IF \E v \in DOMAIN vehicles : vehicles[v][attname(model)] = Some(id)
                   THEN response' = InternalError /\ lookups' = lookups
                   ELSE /\ response' = Bare(Message(deleted_menssage(lookup_label[model])))
                        /\ lookups' = [lookups EXCEPT ![model] = Delete(@, id)]

\* C22: deleting a brand, model, color or type that a vehicle references ends in
\* the internal error and leaves the lookup row and every vehicle as they were;
\* the row is deleted only when no vehicle references it, so every relationship
\* of a stored vehicle is a stored row.
C22_ReferencedLookupIsProtected == []C22_Referenced /\ [][C22_Step]_vars

\* brand 2, referenced by no vehicle, was deleted; then the deletion of brand 1,
\* which vehicle 1 references, was refused
C22_Witness ==
    /\ 1 \in DOMAIN vehicles /\ vehicles[1].brand_id = Some(1)
    /\ DOMAIN lookups["brand"] = {1}
    /\ request.op = "delete_lookup"
    /\ response = InternalError
-----------------------------------------------------------------------------
(* The list of parking records: properties of SpecOwner.                   *)

\* the needle occurs in the text, letter case apart
ContainsIgnoringCase(text, needle) ==
    \E at \in 0..(Len(text) - Len(needle)) :
        \A k \in 1..Len(needle) : lower(text[at + k]) = lower(needle[k])

\* the record satisfies every predicate the filters supply
SatisfiesSupplied(r, filters) ==
    /\ filters.license_plate # None =>
          ContainsIgnoringCase(vehicles[records[r].vehicle_id[1]].license_plate[1],
                               filters.license_plate[1])
    /\ filters.spot_number # None =>
          ContainsIgnoringCase(spots[records[r].parking_spot_id[1]].spot_number[1],
                               filters.spot_number[1])
    /\ filters.entry_time # None => records[r].entry_time = filters.entry_time[1]
    /\ filters.exit_time # None =>
          records[r].exit_time # None /\ records[r].exit_time[1] = filters.exit_time[1]

C23_Step ==
    request'.op = "get_records" /\ invoked' = 1 =>
        \A filters \in FilterRecords :
            get_records_func(request'.user, filters) =>
                response' = Resp(200, [ids |->
                    {r \in VisibleRecords(request'.user) : SatisfiesSupplied(r, filters)}])

\* C23: GET /records of a caller who passed the gate answers 200 with exactly the
\* records the caller may see (all of them for staff or superuser, otherwise
\* those of the caller's own vehicles) that satisfy every supplied filter; with
\* no filter it is exactly the records the caller may see.
C23_ListIsOwnedAndFiltered == [][C23_Step]_vars

\* bob listed the records and got the record of his vehicle, while the record of
\* a vehicle that is not his is stored and is not in the list
C23_Witness ==
    /\ request.op = "get_records" /\ request.user = "bob" /\ invoked = 1
    /\ response.status = Some(200)
    /\ response.body.ids # {}
    /\ \E r \in DOMAIN records :
          /\ vehicles[records[r].vehicle_id[1]].owner_id # auth_user["bob"].pk
          /\ r \notin response.body.ids
-----------------------------------------------------------------------------
(* The reconciler on a failing storage layer: properties of SpecStorage.   *)

C24_Step ==
    /\ request'.op = "create_record" /\ invoked' = 1 =>
          \A payload \in StorageCreatePayloads :
              (create_record_on_storage_func(payload, 1)
                  /\ payload.parking_spot_id[1][1] \in DOMAIN spots)
              => response' = InternalError /\ spots' = spots
    /\ request'.op = "patch_record" /\ invoked' = 1 =>
          \A id \in DOMAIN records, payload \in StoragePatchPayloads :
              /\ patch_record_on_storage_func(id, payload, 1)
                 => response' = InternalError /\ spots' = spots
              /\ (patch_record_on_storage_func(id, payload, 2)
                     /\ record_integrity(update_service(Schema(payload), records[id])))
                 => /\ response' = InternalError
                    /\ spots' = update_parking_spot_status(
                                    update_service(Schema(payload), records[id]), spots)

\* C24: when the save of the spot inside the reconciler raises, the spot is not
\* saved again by that run (the spot table is what the saves before the failing
\* one left) and create_record and patch_record end in the internal error.
C24_SpotSaveFailurePropagates == [][C24_Step]_vars

\* create_record ended in the internal error on a free spot: the record is stored
\* open and the spot was not marked occupied
C24_Witness ==
    /\ request.op = "create_record" /\ invoked = 1
    /\ response = InternalError
    /\ \E r \in DOMAIN records :
          /\ records[r].exit_time = None
          /\ spots[records[r].parking_spot_id[1]].is_occupied = Some(FALSE)
          /\ \A q \in DOMAIN records : q = r
-----------------------------------------------------------------------------
(* Double booking and the frame of the record writes: properties of        *)
(* SpecParking.                                                            *)

\* the body names a stored vehicle and a stored spot
NamesStoredRows(payload) ==
    /\ payload.vehicle_id \notin {Unset, Set(None)}
    /\ payload.vehicle_id[1][1] \in DOMAIN vehicles
    /\ payload.parking_spot_id \notin {Unset, Set(None)}
    /\ payload.parking_spot_id[1][1] \in DOMAIN spots

C25_Step ==
    request'.op = "create_record" /\ invoked' = 1 =>
        \A payload \in CreateRecordPayloads :
            (create_record_func(payload)
                /\ NamesStoredRows(payload)
                /\ spots[payload.parking_spot_id[1][1]].is_occupied = Some(TRUE))
            => LET id == seq.record + 1
                   spot == payload.parking_spot_id[1][1]
               IN  /\ response' = Resp(201, Entity("ParkingRecord", id))
                   /\ DOMAIN records' = DOMAIN records \cup {id}
                   /\ id \notin DOMAIN records
                   /\ records'[id].parking_spot_id = Some(spot)
                   /\ records'[id].exit_time = None
                   /\ \A r \in DOMAIN records : records'[r] = records[r]
                   /\ spots'[spot].is_occupied = Some(TRUE)

\* C25: create_record for a stored vehicle and a spot that is marked occupied
\* answers 201, adds a record of that spot with exit_time null next to the
\* records there were, and leaves the spot marked occupied.
C25_OccupiedSpotTakesAnotherRecord == [][C25_Step]_vars

\* two records with exit_time null are stored for one spot, which is occupied
C25_Witness ==
    /\ request.op = "create_record" /\ response.status = Some(201)
    /\ \E r, q \in DOMAIN records :
          /\ r # q
          /\ records[r].exit_time = None /\ records[q].exit_time = None
          /\ records[r].parking_spot_id = records[q].parking_spot_id
          /\ spots[records[r].parking_spot_id[1]].is_occupied = Some(TRUE)

C26_Step ==
    request'.op = "delete_record" /\ invoked' = 1 =>
        /\ DOMAIN spots' = DOMAIN spots
        /\ \A spot \in DOMAIN spots :
              spots'[spot].is_occupied = spots[spot].is_occupied
        /\ DOMAIN records' \subseteq DOMAIN records
        /\ Cardinality(DOMAIN records \ DOMAIN records') <= 1
        /\ \A r \in DOMAIN records' : records'[r] = records[r]
        /\ \A id \in DOMAIN records :
              delete_record_func(id) => id \notin DOMAIN records'

\* C26: delete_record of a stored record removes that record and no other and
\* leaves the is_occupied flag of every spot as it was, so the spot of a deleted
\* record with exit_time null keeps its flag.
C26_DeleteLeavesSpotFlags == [][C26_Step]_vars

\* the only record ever created was open and has been deleted; its spot is still
\* marked occupied although no record is stored
C26_Witness ==
    /\ request.op = "delete_record" /\ invoked = 1
    /\ response = Bare(Message(deleted_menssage("Registro")))
    /\ records = EmptyTable /\ seq.record = 1
    /\ \E spot \in DOMAIN spots :
          spots[spot].is_occupied = Some(TRUE) /\ spot \in DOMAIN lastWrite
                                               /\ lastWrite[spot]

C27_Step ==
    request'.op = "patch_record" /\ invoked' = 1 =>
        \A id \in DOMAIN records \cap DOMAIN records' :
            LET A == records[id].parking_spot_id[1]
                B == records'[id].parking_spot_id[1]
            IN  A # B =>
                    /\ spots'[B].is_occupied = Some(records'[id].exit_time = None)
                    /\ spots'[A] = spots[A]
                    /\ \A spot \in DOMAIN spots \ {B} : spots'[spot] = spots[spot]

\* C27: a patch_record that moves a record from spot A to spot B sets
\* B.is_occupied to (exit_time of the record is null) and leaves A, and every
\* spot other than B, as it was.
C27_MoveReconcilesNewSpotOnly == [][C27_Step]_vars

\* the only record was moved from spot 1 to spot 2: both spots are marked
\* occupied and no record is on spot 1
C27_Witness ==
    /\ request.op = "patch_record" /\ response.status = Some(200)
    /\ DOMAIN records = {1} /\ seq.record = 1
    /\ records[1].parking_spot_id = Some(2) /\ records[1].exit_time = None
    /\ DOMAIN spots = {1, 2}
    /\ spots[1].is_occupied = Some(TRUE) /\ spots[2].is_occupied = Some(TRUE)
    /\ 1 \in DOMAIN lastWrite /\ lastWrite[1]
-----------------------------------------------------------------------------
(* The save of the spot next to patch_spot: properties of SpecSpotRace.    *)

\* the step is the save of the spot by the receiver
ReconcilerSaved == procs[1].pc = "save" /\ procs'[1].pc = "idle"

\* C28: the save of the spot by the reconciler changes the is_occupied flag (and
\* the modification time) of the spot and nothing else: the spot_number that is
\* committed when the reconciler saves is the spot_number afterwards.
C28_Step ==
    ReconcilerSaved =>
        \A spot \in DOMAIN spots :
            /\ spot \in DOMAIN spots'
            /\ spots'[spot].spot_number = spots[spot].spot_number

C28_ReconcilerKeepsSpotNumber == [][C28_Step]_vars
-----------------------------------------------------------------------------
(* Hidden rows and absent ids: properties of SpecOwner.                    *)

\* the callers the ownership filter applies to once the gate let them through
NonInternal == {user \in OwnerCallers : ~is_internal_user(user)}

\* C29: for a non-internal caller who passed the gate, get_record and get_vehicle
\* answer an id outside the caller's own rows with the one not-found 404 of the
\* model, whether a row of another owner has the id or no row has it; the only
\* other answer is 200 with one of the caller's own rows.
C29_Step ==
    /\ request'.op = "get_record" /\ invoked' = 1 =>
          \A user \in NonInternal :
             request'.user = user =>
                /\ response' \in {NotFound("Registro")} \cup
                      {Resp(200, Entity("ParkingRecord", r)) :
                          r \in ParkingRecord_for_owner(user)}
                /\ \A id \in RecordIds \cup {9} :
                      get_record_func(user, id) /\ id \notin ParkingRecord_for_owner(user)
                          => response' = NotFound("Registro")
    /\ request'.op = "get_vehicle" /\ invoked' = 1 =>
          \A user \in NonInternal :
             request'.user = user =>
                /\ response' \in {NotFound("Veículo")} \cup
                      {Resp(200, Entity("Vehicle", v)) : v \in Vehicle_for_owner(user)}
                /\ \A id \in VehicleIds \cup {9} :
                      get_vehicle_func(user, id) /\ id \notin Vehicle_for_owner(user)
                          => response' = NotFound("Veículo")

C29_HiddenRowAnswersAsAbsentId == [][C29_Step]_vars

\* bob, who passed the gate, is told 404 while records of other owners exist
C29_Witness ==
    /\ request.op = "get_record" /\ request.user = "bob" /\ invoked = 1
    /\ response.status = Some(404)
    /\ DOMAIN records # {}
    /\ ParkingRecord_for_owner("bob") = {}
    /\ \E v \in DOMAIN vehicles : vehicles[v].owner_id = auth_user["bob"].pk
-----------------------------------------------------------------------------
(* Writes are not scoped by owner: properties of SpecWrites.               *)

\* C30: once the gate let the caller through, patch_record, delete_record,
\* patch_vehicle and delete_vehicle on the id of an existing row do what the
\* handler does to that row, whoever owns the vehicle concerned: the answer is
\* never the 404 of a missing row, and the step is the lookup by id alone followed
\* by the write.
C30_Step ==
    /\ request'.op = "patch_record" /\ invoked' = 1 =>
          /\ response'.status # Some(404)
          /\ \E id \in DOMAIN records, payload \in WriteRecordPayloads :
                patch_record_func(id, payload)
    /\ request'.op = "delete_record" /\ invoked' = 1 =>
          /\ response'.status # Some(404)
          /\ \E id \in DOMAIN records :
                delete_record_func(id) /\ id \notin DOMAIN records'
    /\ request'.op = "patch_vehicle" /\ invoked' = 1 =>
          /\ response'.status # Some(404)
          /\ \E id \in DOMAIN vehicles, payload \in WriteVehiclePayloads :
                patch_vehicle_func(id, payload)
    /\ request'.op = "delete_vehicle" /\ invoked' = 1 =>
          /\ response'.status # Some(404)
          /\ \E id \in DOMAIN vehicles : delete_vehicle_func(id)

C30_WritesReachRowsOfOtherOwners == [][C30_Step]_vars

\* alice, who owns vehicle 2 only, has deleted bob's vehicle 1 after its record
C30_Witness ==
    /\ request.op = "delete_vehicle" /\ request.user = "alice" /\ invoked = 1
    /\ response.status = None
    /\ DOMAIN vehicles = {2}
    /\ vehicles[2].owner_id = auth_user["alice"].pk
====
